---------------------------- MODULE Spec2Model ----------------------------
(***************************************************************************)
(* A model of gns3_proxy.py: the chunked-transfer parser, the incremental  *)
(* HTTP parser and its serialiser, and one proxy session (authentication,  *)
(* deny rules, backend selection, relay loop, response filter).            *)
(*                                                                         *)
(* Bytes.  A byte string is a sequence of symbols, one symbol per byte.    *)
(* The bytes the code looks at one by one (CR, LF, SP, ':', '/', '?', '#', *)
(* digits, the letters of an authentication scheme) are themselves; a run  *)
(* of bytes the code only copies, compares or looks up as a whole (a       *)
(* header name, a method, a base64 credential, a JSON project object) is   *)
(* one symbol and counts as one byte in every length.                      *)
(***************************************************************************)
EXTENDS Integers, Sequences, FiniteSets, TLC

VARIABLES
    input,    \* what is given: a chunk list, a request, the course of a session
    cp,       \* ChunkParser under test   (SpecChunk)
    hp,       \* HttpParser under test    (SpecParser)
    hp2,      \* the parser that read hp.build() back (SpecParser)
    feed,     \* bytes not yet handed to the parser under test
    fault,    \* how the last call ended: "" or the exception that left it
    cfg,      \* the configuration handed to Proxy.__init__
    proxy,    \* the Proxy object: client, server, request, response, username
    net,      \* the sockets' far ends: what the peers still send, what they got
    pc,       \* where the session thread is: "loop", "done", "closed", "hung"
    idle,     \* _is_inactive(): more than 30 s since last_activity
    log       \* what the session's handlers did (queue calls, dials)

vars == <<input, cp, hp, hp2, feed, fault, cfg, proxy, net, pc, idle, log>>

-----------------------------------------------------------------------------
(* Bytes and byte strings                                                  *)

CR == "\r"
LF == "\n"
SP == " "
COLON == ":"
CRLF == <<CR, LF>>

\* Python's None, for fields that hold None or a byte string
None == <<"None">>

RECURSIVE Concat(_)
Concat(ss) == IF ss = <<>> THEN <<>> ELSE Head(ss) \o Concat(Tail(ss))

Drop(s, n) == IF n >= Len(s) THEN <<>> ELSE SubSeq(s, n + 1, Len(s))
Take(s, n) == IF n >= Len(s) THEN s ELSE SubSeq(s, 1, n)

StartsWith(s, p) == Len(s) >= Len(p) /\ SubSeq(s, 1, Len(p)) = p
EndsWith(s, p) == Len(s) >= Len(p) /\ SubSeq(s, Len(s) - Len(p) + 1, Len(s)) = p

\* bytes.find(pat): the first index (from 0) where pat starts, -1 when none
Find(s, pat) ==
    LET hits == {i \in 0..(Len(s) - Len(pat)) : SubSeq(s, i + 1, i + Len(pat)) = pat}
    IN IF hits = {} THEN -1 ELSE CHOOSE i \in hits : \A j \in hits : i <= j

\* bytes.split(sep) for a one-byte separator
RECURSIVE SplitOn(_, _)
SplitOn(s, sep) ==
    LET pos == Find(s, <<sep>>)
    IN IF pos = -1 THEN <<s>> ELSE <<Take(s, pos)>> \o SplitOn(Drop(s, pos + 1), sep)

\* bytes.split(CRLF)
RECURSIVE SplitLines(_)
SplitLines(s) ==
    LET pos == Find(s, CRLF)
    IN IF pos = -1 THEN <<s>> ELSE <<Take(s, pos)>> \o SplitLines(Drop(s, pos + 2))

\* sep.join(parts)
RECURSIVE Join(_, _)
Join(parts, sep) ==
    IF parts = <<>> THEN <<>>
    ELSE IF Len(parts) = 1 THEN parts[1]
    ELSE parts[1] \o sep \o Join(Tail(parts), sep)

Whitespace == {SP, CR, LF, "\t"}

\* bytes.strip()
RECURSIVE LStrip(_)
LStrip(s) == IF s # <<>> /\ Head(s) \in Whitespace THEN LStrip(Tail(s)) ELSE s
RECURSIVE RStrip(_)
RStrip(s) == IF s # <<>> /\ s[Len(s)] \in Whitespace THEN RStrip(Take(s, Len(s) - 1)) ELSE s
Strip(s) == RStrip(LStrip(s))

\* bytes.lower() and bytes.upper(), symbol by symbol
LowerSym(b) ==
    CASE b = "Authorization" -> "authorization"
      [] b = "AUTHORIZATION" -> "authorization"
      [] b = "Content-Length" -> "content-length"
      [] b = "Transfer-Encoding" -> "transfer-encoding"
      [] b = "X-Route" -> "x-route"
      [] b = "Host" -> "host"
      [] b = "X-Tag" -> "x-tag"
      [] b = "Chunked" -> "chunked"
      [] b = "GET" -> "get"
      [] b = "POST" -> "post"
      [] b = "PUT" -> "put"
      [] b = "DELETE" -> "delete"
      [] b = "CONNECT" -> "connect"
      [] b = "HTTP/1.1" -> "http/1.1"
      [] b = "OK" -> "ok"
      [] b = "B" -> "b"
      [] OTHER -> b
UpperSym(b) ==
    CASE b = "get" -> "GET"
      [] b = "post" -> "POST"
      [] b = "put" -> "PUT"
      [] b = "delete" -> "DELETE"
      [] b = "connect" -> "CONNECT"
      [] OTHER -> b
Lower(s) == [i \in 1..Len(s) |-> LowerSym(s[i])]
Upper(s) == [i \in 1..Len(s) |-> UpperSym(s[i])]

\* int(s) and int(s, 16): surrounding whitespace is ignored; -1 stands for ValueError
DigitValue(b) ==
    CASE b = "0" -> 0 [] b = "1" -> 1 [] b = "2" -> 2 [] b = "3" -> 3 [] b = "4" -> 4
      [] b = "5" -> 5 [] b = "6" -> 6 [] b = "7" -> 7 [] b = "8" -> 8 [] b = "9" -> 9
      [] b = "a" -> 10 [] b = "b" -> 11 [] b = "c" -> 12 [] b = "d" -> 13
      [] b = "e" -> 14 [] b = "f" -> 15
      [] OTHER -> -1
RECURSIVE Digits(_, _, _)
Digits(s, base, acc) ==
    IF s = <<>> THEN acc
    ELSE IF DigitValue(Head(s)) \in 0..(base - 1)
         THEN Digits(Tail(s), base, acc * base + DigitValue(Head(s)))
         ELSE -1
int(s, base) == IF Strip(s) = <<>> THEN -1 ELSE Digits(Strip(s), base, 0)

\* str(n) for a length
RECURSIVE str(_)
str(n) ==
    LET d == <<"0", "1", "2", "3", "4", "5", "6", "7", "8", "9">>
    IN IF n < 10 THEN <<d[n + 1]>> ELSE str(n \div 10) \o <<d[(n % 10) + 1]>>

-----------------------------------------------------------------------------
(* HttpParser.split (src/gns3_proxy.py 393-400)                            *)

\* found = FALSE is the code's `line is False`
split(data) ==
    LET pos == Find(data, CRLF)
    IN IF pos = -1
       THEN [found |-> FALSE, line |-> <<>>, data |-> data]
       ELSE [found |-> TRUE, line |-> Take(data, pos), data |-> Drop(data, pos + Len(CRLF))]

-----------------------------------------------------------------------------
(* ChunkParser (src/gns3_proxy.py 161-208)                                 *)

WAITING_FOR_SIZE == 1
WAITING_FOR_DATA == 2
CHUNK_COMPLETE == 3

\* size = -1 is the code's None
ChunkParser == [state |-> WAITING_FOR_SIZE, body |-> <<>>, chunk |-> <<>>, size |-> -1]

\* ChunkParser.process in state WAITING_FOR_SIZE; s is split(self.chunk + data).
\* A result is the parser after the call, the two values returned (more, data)
\* and the exception raised ("" when none).
ChunkSize(self, s) ==
    IF (~s.found) \/ s.line = <<>>      \* `if not line`
    THEN [self |-> [self EXCEPT !.chunk = s.data], more |-> FALSE, data |-> <<>>,
          exc |-> ""]
    ELSE IF int(s.line, 16) = -1
    THEN [self |-> [self EXCEPT !.chunk = <<>>], more |-> FALSE, data |-> s.data,
          exc |-> "ValueError"]
    ELSE [self |-> [self EXCEPT !.chunk = <<>>, !.size = int(s.line, 16),
                                !.state = WAITING_FOR_DATA],
          more |-> Len(s.data) > 0, data |-> s.data, exc |-> ""]

\* ChunkParser.process in state WAITING_FOR_DATA
ChunkData(self, data) ==
    LET remaining == self.size - Len(self.chunk)
        chunk == self.chunk \o Take(data, remaining)
        rest == Drop(data, remaining)
    IN IF Len(chunk) = self.size
       THEN [self |-> [state |-> IF self.size = 0 THEN CHUNK_COMPLETE ELSE WAITING_FOR_SIZE,
                       body |-> self.body \o chunk, chunk |-> <<>>, size |-> -1],
             more |-> Len(Drop(rest, Len(CRLF))) > 0, data |-> Drop(rest, Len(CRLF)),
             exc |-> ""]
       ELSE [self |-> [self EXCEPT !.chunk = chunk],
             more |-> Len(rest) > 0, data |-> rest, exc |-> ""]

\* One call of ChunkParser.process
ChunkProcess(self, data) ==
    IF self.state = WAITING_FOR_SIZE THEN ChunkSize(self, split(self.chunk \o data))
    ELSE IF self.state = WAITING_FOR_DATA THEN ChunkData(self, data)
    ELSE [self |-> self, more |-> Len(data) > 0, data |-> data, exc |-> ""]

\* ChunkParser.parse: `while more: more, data = self.process(data)`.  In state
\* COMPLETE process returns its data untouched, so the loop never ends when data
\* is left: exc = "LOOP" stands for that run.  ChunkNext takes the result r of one
\* process call.
RECURSIVE ChunkLoop(_, _)
ChunkNext(r) ==
    IF r.exc # "" THEN [self |-> r.self, exc |-> r.exc]
    ELSE IF r.more THEN ChunkLoop(r.self, r.data)
    ELSE [self |-> r.self, exc |-> ""]
ChunkLoop(self, data) ==
    IF self.state = CHUNK_COMPLETE THEN [self |-> self, exc |-> "LOOP"]
    ELSE ChunkNext(ChunkProcess(self, data))

ChunkParse(self, data) ==
    IF Len(data) > 0 THEN ChunkLoop(self, data) ELSE [self |-> self, exc |-> ""]

-----------------------------------------------------------------------------
(* urllib.parse.urlsplit, as HttpParser.process_line uses it                *)

NoneUrl == [scheme |-> None, netloc |-> None, path |-> None, query |-> None,
            fragment |-> None]

\* the bytes that may not appear in a URL scheme
NotSchemeChars == {"/", "?", "#", COLON, SP, CR, LF, "{", "}", "[", "]", ","}

\* _splitnetloc(url, 2): the authority runs to the first of '/', '?', '#'
SplitNetloc(url) ==
    LET ends == {i \in 3..Len(url) : url[i] \in {"/", "?", "#"}}
        delim == IF ends = {} THEN Len(url) + 1 ELSE CHOOSE i \in ends : \A j \in ends : i <= j
    IN [netloc |-> SubSeq(url, 3, delim - 1), url |-> Drop(url, delim - 1)]

urlsplit(u) ==
    LET i == Find(u, <<COLON>>)
        hasScheme == i > 0 /\ \A j \in 1..i : u[j] \notin NotSchemeChars
        scheme == IF hasScheme THEN Lower(Take(u, i)) ELSE <<>>
        u1 == IF hasScheme THEN Drop(u, i + 1) ELSE u
        hasNetloc == Take(u1, 2) = <<"/", "/">>
        netloc == IF hasNetloc THEN SplitNetloc(u1).netloc ELSE <<>>
        u2 == IF hasNetloc THEN SplitNetloc(u1).url ELSE u1
        h == Find(u2, <<"#">>)
        fragment == IF h = -1 THEN <<>> ELSE Drop(u2, h + 1)
        u3 == IF h = -1 THEN u2 ELSE Take(u2, h)
        q == Find(u3, <<"?">>)
        query == IF q = -1 THEN <<>> ELSE Drop(u3, q + 1)
        path == IF q = -1 THEN u3 ELSE Take(u3, q)
    IN [scheme |-> scheme, netloc |-> netloc, path |-> path, query |-> query,
        fragment |-> fragment]

-----------------------------------------------------------------------------
(* HttpParser (src/gns3_proxy.py 211-400)                                  *)

INITIALIZED == 1
LINE_RCVD == 2
RCVING_HEADERS == 3
HEADERS_COMPLETE == 4
RCVING_BODY == 5
COMPLETE == 6

REQUEST_PARSER == 1
RESPONSE_PARSER == 2

\* chunk_parser = None
NoChunkParser == [state |-> 0, body |-> <<>>, chunk |-> <<>>, size |-> -1]

\* HttpParser.__init__.  headers is the dict in insertion order: a sequence of
\* [k: the lower-cased key, key, value].
HttpParser(parser_type) ==
    [type |-> parser_type, state |-> INITIALIZED, raw |-> <<>>, buffer |-> <<>>,
     headers |-> <<>>, body |-> None, method |-> None, url |-> NoneUrl, code |-> None,
     reason |-> None, version |-> None, chunk_parser |-> NoChunkParser]

\* k in headers, headers[k]
HasHeader(headers, k) == \E i \in 1..Len(headers) : headers[i].k = k
Header(headers, k) == headers[CHOOSE i \in 1..Len(headers) : headers[i].k = k]

\* headers[k] = (key, value): a dict keeps the place of a key it already holds
SetHeader(headers, k, key, value) ==
    IF HasHeader(headers, k)
    THEN [i \in 1..Len(headers) |->
            IF headers[i].k = k THEN [k |-> k, key |-> key, value |-> value]
            ELSE headers[i]]
    ELSE Append(headers, [k |-> k, key |-> key, value |-> value])

is_chunked_encoded_response(self) ==
    /\ self.type = RESPONSE_PARSER
    /\ HasHeader(self.headers, <<"transfer-encoding">>)
    /\ Lower(Header(self.headers, <<"transfer-encoding">>).value) = <<"chunked">>

\* HttpParser.process_line on line = data.split(SP): the parser after it and the
\* exception raised
ProcessLineOf(self, line) ==
    IF self.type = REQUEST_PARSER
    THEN IF Len(line) < 2
         THEN [self |-> [self EXCEPT !.method = Upper(line[1])], exc |-> "IndexError"]
         ELSE [self |-> [self EXCEPT !.method = Upper(line[1]),
                                     !.url = urlsplit(line[2]),
                                     !.version = IF Len(line) < 3 THEN self.version
                                                 ELSE line[3],
                                     !.state = IF Len(line) < 3 THEN self.state
                                               ELSE LINE_RCVD],
               exc |-> IF Len(line) < 3 THEN "IndexError" ELSE ""]
    ELSE IF Len(line) < 2
         THEN [self |-> [self EXCEPT !.version = line[1]], exc |-> "IndexError"]
         ELSE [self |-> [self EXCEPT !.version = line[1],
                                     !.code = line[2],
                                     !.reason = Join(Drop(line, 2), <<SP>>),
                                     !.state = LINE_RCVD],
               exc |-> ""]

process_line(self, data) == ProcessLineOf(self, SplitOn(data, SP))

process_header(self, data) ==
    IF Len(data) = 0
    THEN IF self.state = RCVING_HEADERS THEN [self EXCEPT !.state = HEADERS_COMPLETE]
         ELSE IF self.state = LINE_RCVD THEN [self EXCEPT !.state = RCVING_HEADERS]
         ELSE self
    ELSE LET parts == SplitOn(data, COLON)
             key == Strip(parts[1])
             value == Strip(Join(Tail(parts), <<COLON>>))
         IN [self EXCEPT !.state = RCVING_HEADERS,
                         !.headers = SetHeader(self.headers, Lower(key), key, value)]

BodyMethods == {<<"POST">>, <<"GET">>, <<"PUT">>, <<"DELETE">>}

\* `if not self.body: self.body = b\'\''
BodyStarted(self) ==
    IF self.body = None \/ self.body = <<>> THEN [self EXCEPT !.body = <<>>] ELSE self

\* the body of a message with Content-Length n (-1: int() raised)
BodyByLength(self, data, n) ==
    IF n = -1
    THEN [self |-> [self EXCEPT !.state = RCVING_BODY, !.body = self.body \o data],
          more |-> FALSE, data |-> <<>>, exc |-> "ValueError"]
    ELSE [self |-> [self EXCEPT !.state = IF Len(self.body \o data) >= n THEN COMPLETE
                                          ELSE RCVING_BODY,
                                !.body = self.body \o data],
          more |-> FALSE, data |-> <<>>, exc |-> ""]

\* the body of a chunked response, r the result of chunk_parser.parse(data)
BodyByChunks(self, r) ==
    IF r.exc # ""
    THEN [self |-> [self EXCEPT !.chunk_parser = r.self],
          more |-> FALSE, data |-> <<>>, exc |-> r.exc]
    ELSE IF r.self.state = CHUNK_COMPLETE
    THEN [self |-> [self EXCEPT !.chunk_parser = r.self, !.body = r.self.body,
                                !.state = COMPLETE],
          more |-> FALSE, data |-> <<>>, exc |-> ""]
    ELSE [self |-> [self EXCEPT !.chunk_parser = r.self],
          more |-> FALSE, data |-> <<>>, exc |-> ""]

\* the first branch of HttpParser.process, after `if not self.body`
BodyData(self, data) ==
    IF HasHeader(self.headers, <<"content-length">>)
    THEN BodyByLength(self, data, int(Header(self.headers, <<"content-length">>).value, 10))
    ELSE IF is_chunked_encoded_response(self)
    THEN BodyByChunks(self, ChunkParse(IF self.chunk_parser = NoChunkParser
                                       THEN ChunkParser ELSE self.chunk_parser, data))
    ELSE [self |-> self, more |-> FALSE, data |-> <<>>, exc |-> ""]

\* the first branch of HttpParser.process: the message may carry a body
ProcessBody(self, data) == BodyData(BodyStarted(self), data)

\* the checks HttpParser.process makes after a line was handled (303-326)
EndOfRequest(self, data) ==
    IF /\ self.state = LINE_RCVD
       /\ self.type = REQUEST_PARSER
       /\ self.method = <<"CONNECT">>
       /\ data = CRLF
    THEN [self EXCEPT !.state = COMPLETE]
    ELSE IF /\ self.state = HEADERS_COMPLETE
            /\ self.type = REQUEST_PARSER
            /\ self.method # <<"POST">>
            /\ EndsWith(self.raw, CRLF \o CRLF)
    THEN [self EXCEPT !.state = COMPLETE]
    ELSE IF /\ self.state = HEADERS_COMPLETE
            /\ self.type = REQUEST_PARSER
            /\ self.method = <<"POST">>
            /\ \/ ~HasHeader(self.headers, <<"content-length">>)
               \/ int(Header(self.headers, <<"content-length">>).value, 10) = 0
            /\ EndsWith(self.raw, CRLF \o CRLF)
    THEN [self EXCEPT !.state = COMPLETE]
    ELSE self

\* int() of a Content-Length that is no number, in the last of those checks
EndOfRequestRaises(self) ==
    /\ self.state = HEADERS_COMPLETE
    /\ self.type = REQUEST_PARSER
    /\ self.method = <<"POST">>
    /\ HasHeader(self.headers, <<"content-length">>)
    /\ int(Header(self.headers, <<"content-length">>).value, 10) = -1

\* process_line or process_header on a line, by the parser's state
LineOrHeader(self, line) ==
    IF self.state = INITIALIZED THEN process_line(self, line)
    ELSE IF self.state \in {LINE_RCVD, RCVING_HEADERS}
    THEN [self |-> process_header(self, line), exc |-> ""]
    ELSE [self |-> self, exc |-> ""]

\* what HttpParser.process returns after the line was handled with result r;
\* data is what followed the line
AfterLine(r, data) ==
    IF r.exc # "" THEN [self |-> r.self, more |-> FALSE, data |-> data, exc |-> r.exc]
    ELSE IF EndOfRequestRaises(r.self)
    THEN [self |-> r.self, more |-> FALSE, data |-> data, exc |-> "ValueError"]
    ELSE [self |-> EndOfRequest(r.self, data), more |-> Len(data) > 0, data |-> data,
          exc |-> ""]

\* the second branch of HttpParser.process, s = HttpParser.split(data)
ProcessSplit(self, s) ==
    IF ~s.found THEN [self |-> self, more |-> FALSE, data |-> s.data, exc |-> ""]
    ELSE AfterLine(LineOrHeader(self, s.line), s.data)

\* HttpParser.process: the parser after one call, its two results (more, data) and
\* the exception raised
process(self, data) ==
    IF /\ self.state \in {HEADERS_COMPLETE, RCVING_BODY, COMPLETE}
       /\ (self.method \in BodyMethods \/ self.type = RESPONSE_PARSER)
    THEN ProcessBody(self, data)
    ELSE ProcessSplit(self, split(data))

\* HttpParser.parse's loop `while more: more, data = self.process(data)`, then
\* `self.buffer = data`; ParseNext takes the result r of one process call
RECURSIVE ParseLoop(_, _)
ParseNext(r) ==
    IF r.exc # "" THEN [self |-> r.self, exc |-> r.exc]
    ELSE IF r.more THEN ParseLoop(r.self, r.data)
    ELSE [self |-> [r.self EXCEPT !.buffer = r.data], exc |-> ""]
ParseLoop(self, data) == ParseNext(process(self, data))

\* HttpParser.parse
parse(self, data) ==
    IF Len(self.buffer \o data) > 0
    THEN ParseLoop([self EXCEPT !.raw = self.raw \o data, !.buffer = <<>>],
                   self.buffer \o data)
    ELSE [self |-> [self EXCEPT !.raw = self.raw \o data], exc |-> ""]

\* build_url that forgets the query
build_url_no_query(self) ==
    IF self.url = NoneUrl THEN <<"/", "None">>
    ELSE LET u0 == IF self.url.path = <<>> THEN <<"/">> ELSE self.url.path
         IN IF self.url.fragment # <<>> THEN u0 \o <<"#">> \o self.url.fragment ELSE u0

build_url(self) ==
    IF self.url = NoneUrl THEN <<"/", "None">>
    ELSE LET u0 == IF self.url.path = <<>> THEN <<"/">> ELSE self.url.path
             u1 == IF self.url.query # <<>> THEN u0 \o <<"?">> \o self.url.query ELSE u0
         IN IF self.url.fragment # <<>> THEN u1 \o <<"#">> \o self.url.fragment ELSE u1

build_header(k, v) == k \o <<COLON, SP>> \o v

RECURSIVE BuildHeaders(_, _)
BuildHeaders(headers, del_headers) ==
    IF headers = <<>> THEN <<>>
    ELSE (IF Head(headers).k \notin del_headers
          THEN build_header(Head(headers).key, Head(headers).value) \o CRLF
          ELSE <<>>)
         \o BuildHeaders(Tail(headers), del_headers)

RECURSIVE BuildAdded(_)
BuildAdded(add_headers) ==
    IF add_headers = <<>> THEN <<>>
    ELSE build_header(Head(add_headers)[1], Head(add_headers)[2]) \o CRLF
         \o BuildAdded(Tail(add_headers))

\* HttpParser.build that leaves every header in: `if k not in del_headers` lost
build_keep_headers(self, del_headers, add_headers) ==
    Join(<<self.method, build_url(self), self.version>>, <<SP>>) \o CRLF
    \o BuildHeaders(self.headers, {})
    \o BuildAdded(add_headers)
    \o CRLF
    \o (IF self.body # None /\ self.body # <<>> THEN self.body ELSE <<>>)

\* HttpParser.build(del_headers, add_headers)
build(self, del_headers, add_headers) ==
    Join(<<self.method, build_url(self), self.version>>, <<SP>>) \o CRLF
    \o BuildHeaders(self.headers, del_headers)
    \o BuildAdded(add_headers)
    \o CRLF
    \o (IF self.body # None /\ self.body # <<>> THEN self.body ELSE <<>>)

-----------------------------------------------------------------------------
(* ChunkParser fed a chunked stream in fragments                           *)

MaxChunks == 2
MaxChunkLen == 2

\* the session's variables, where no session runs
sessionVars == <<cfg, proxy, net, pc, idle, log>>
NoSession ==
    /\ cfg = <<>> /\ proxy = <<>> /\ net = <<>> /\ pc = "none" /\ idle = FALSE
    /\ log = <<>>

DataBytes == {"x", "y"}
Strings(alphabet, lo, hi) == UNION {[1..n -> alphabet] : n \in lo..hi}

\* n as the hexadecimal size line of a chunk (sizes below 16)
Hex(n) == <<(<<"0", "1", "2", "3", "4", "5", "6", "7", "8", "9", "a", "b", "c", "d", "e",
              "f">>)[n + 1]>>

\* the chunked stream of c1, ..., cn followed by the zero-size chunk
RECURSIVE Chunked(_)
Chunked(chunks) ==
    IF chunks = <<>> THEN <<"0">> \o CRLF \o CRLF
    ELSE Hex(Len(Head(chunks))) \o CRLF \o Head(chunks) \o CRLF \o Chunked(Tail(chunks))

InitChunk ==
    /\ input \in Strings(Strings(DataBytes, 1, MaxChunkLen), 0, MaxChunks)
    /\ feed = Chunked(input)
    /\ cp = ChunkParser
    /\ hp = <<>> /\ hp2 = <<>>
    /\ fault = ""
    /\ NoSession

\* the state after a ChunkParser.parse call on n bytes that ended as r
ChunkFed(r, n) == cp' = r.self /\ fault' = r.exc /\ feed' = Drop(feed, n)

\* one ChunkParser.parse call on the next n bytes of the stream; a call that
\* raised or never returned is the last one
ChunkFeed ==
    /\ fault = ""
    /\ \E n \in 1..Len(feed) : ChunkFed(ChunkParse(cp, Take(feed, n)), n)
    /\ UNCHANGED <<input, hp, hp2>>
    /\ UNCHANGED sessionVars

NextChunk == ChunkFeed

SpecChunk == InitChunk /\ [][NextChunk]_vars

\* C9: for every chunked stream c1..cn and zero-size chunk, and every way of
\* splitting its bytes across parse calls, once all bytes were fed the parser is
\* in COMPLETE and its body is the concatenation of the chunks.
C9_BodyForEveryFragmentation ==
    feed = <<>> =>
        (fault = "" /\ cp.state = CHUNK_COMPLETE /\ cp.body = Concat(input))

-----------------------------------------------------------------------------
(* HttpParser fed a request in fragments, then build() read back           *)

MaxHeaders == 2
MaxBody == 2

Methods == {<<"GET">>, <<"POST">>}
OriginUrls == {<<"/", "p">>, <<"/", "p", "?", "q">>, <<"/", "p", "#", "f">>, <<"/", "p", "?">>}
AbsoluteUrls == {<<"http", COLON, "/", "/", "h", "/", "p">>}
\* header lines: one name twice, in two spellings
HeaderLines == {<<"Host", COLON, SP, "h">>, <<"X-Tag", COLON, SP, "1">>,
                <<"x-tag", COLON, "2">>}

\* the requests the parser is tried on; cl = -1: no Content-Length header
Requests ==
    {r \in [method : Methods, url : OriginUrls \cup AbsoluteUrls,
            headers : Strings(HeaderLines, 0, MaxHeaders),
            cl : -1..MaxBody, body : Strings({"x"}, 0, MaxBody)] :
        /\ r.cl \in {-1, Len(r.body)}
        /\ r.cl = -1 => r.body = <<>>}

\* requests followed by bytes that no Content-Length header announces
UnframedRequests ==
    [method : Methods, url : {<<"/", "p">>},
     headers : Strings({<<"Host", COLON, SP, "h">>}, 0, 1),
     cl : {-1}, body : Strings({"x"}, 1, MaxBody)]

\* the bytes of a request
RequestBytes(r) ==
    Join(<<r.method, r.url, <<"HTTP/1.1">>>>, <<SP>>) \o CRLF
    \o Concat([i \in 1..Len(r.headers) |-> r.headers[i] \o CRLF])
    \o (IF r.cl = -1 THEN <<>> ELSE <<"Content-Length", COLON, SP>> \o str(r.cl) \o CRLF)
    \o CRLF
    \o r.body

InitParser ==
    /\ input \in Requests \cup UnframedRequests
    /\ feed = RequestBytes(input)
    /\ hp = HttpParser(REQUEST_PARSER)
    /\ hp2 = <<>>
    /\ cp = <<>>
    /\ fault = ""
    /\ NoSession

\* the state after an HttpParser.parse call on n bytes that ended as r
ParserFed(r, n) == hp' = r.self /\ fault' = r.exc /\ feed' = Drop(feed, n)
\* the state after the rebuilt bytes were parsed with result r
ReadBack(r) == hp2' = r.self /\ fault' = r.exc

\* one HttpParser.parse call on the next n bytes of the request
ParserFeed ==
    /\ fault = ""
    /\ hp2 = <<>>
    /\ \E n \in 1..Len(feed) : ParserFed(parse(hp, Take(feed, n)), n)
    /\ UNCHANGED <<input, cp, hp2>>
    /\ UNCHANGED sessionVars

\* a complete request is rebuilt with empty delete and add lists and the bytes
\* are parsed by a new request parser
Rebuild ==
    /\ fault = ""
    /\ hp2 = <<>>
    /\ hp.state = COMPLETE
    /\ ReadBack(parse(HttpParser(REQUEST_PARSER), build(hp, {}, <<>>)))
    /\ UNCHANGED <<input, cp, hp, feed>>
    /\ UNCHANGED sessionVars

NextParser == ParserFeed \/ Rebuild

SpecParser == InitParser /\ [][NextParser]_vars

\* the headers a parser holds, as a set: lower-cased key and value
HeaderSet(p) == {<<p.headers[i].k, p.headers[i].value>> : i \in 1..Len(p.headers)}
\* a body that is None and a body of no bytes are both the empty body
BodyOf(p) == IF p.body = None THEN <<>> ELSE p.body

\* the header lines of a request, its Content-Length line included
LinesOf(r) ==
    r.headers \o (IF r.cl = -1 THEN <<>> ELSE <<<<"Content-Length", COLON, SP>> \o str(r.cl)>>)
\* name and value of a header line written name ':' [SP] value
NameOf(line) == Lower(<<line[1]>>)
ValueOf(line) == Strip(Drop(line, 2))
\* the headers of a request as a case-insensitive mapping: for a name given
\* more than once the last line counts
SentHeaders(r) ==
    {<<NameOf(LinesOf(r)[i]), ValueOf(LinesOf(r)[i])>> : i \in
        {i \in 1..Len(LinesOf(r)) :
            \A j \in (i + 1)..Len(LinesOf(r)) : NameOf(LinesOf(r)[j]) # NameOf(LinesOf(r)[i])}}

\* what was rebuilt and read back is the request r, its URL compared by its parts
RoundTrip(r) ==
    /\ fault = ""
    /\ hp2.method = r.method
    /\ hp2.url = urlsplit(r.url)
    /\ hp2.version = <<"HTTP/1.1">>
    /\ HeaderSet(hp2) = SentHeaders(r)
    /\ BodyOf(hp2) = r.body

-----------------------------------------------------------------------------
(* What the session borrows from the standard library                      *)

\* A regular expression is a byte string in which the symbol ANY is the
\* pattern .* and every other symbol stands for itself.
ANY == ".*"

\* re.fullmatch(pat, s)
RECURSIVE fullmatch(_, _)
fullmatch(pat, s) ==
    IF pat = <<>> THEN s = <<>>
    ELSE IF Head(pat) = ANY
    THEN \E k \in 0..Len(s) : fullmatch(Tail(pat), Drop(s, k))
    ELSE s # <<>> /\ Head(s) = Head(pat) /\ fullmatch(Tail(pat), Tail(s))

\* base64 text is one symbol; what each one decodes to
Base64Text(b) ==
    CASE b = "YWxpY2U6cHcx" -> <<"alice", COLON, "pw1">>
      [] b = "YWxpY2U6Ym9ndXM=" -> <<"alice", COLON, "bogus">>
      [] b = "bWFsbG9yeTpwdzE=" -> <<"mallory", COLON, "pw1">>
      [] b = "YWxpY2U6cHcxOng=" -> <<"alice", COLON, "pw1", COLON, "x">>
      [] b = "Ym9iOnB3Mg==" -> <<"bob", COLON, "pw2">>
      [] b = "YWRtaW46cGFzc3dvcmQ=" -> <<"admin", COLON, "password">>
      [] b = "YWxpY2U6" -> <<"alice", COLON>>
      [] b = "YWxpY2U=" -> <<"alice">>
      [] b = "Y2Fyb2w6" -> <<"carol", COLON>>
      [] b = "ZGF2ZTpkOnE=" -> <<"dave", COLON, "d", COLON, "q">>
      [] OTHER -> <<"binascii.Error">>

\* base64.b64decode(s): bytes outside the base64 alphabet (a blank) are skipped;
\* the decoded text, and the exception raised for text that is no base64
b64decode(s) ==
    LET t == SelectSeq(s, LAMBDA b : b # SP)
    IN IF t = <<>> THEN [data |-> <<>>, exc |-> ""]
       ELSE IF Len(t) > 1 \/ Base64Text(t[1]) = <<"binascii.Error">>
       THEN [data |-> <<>>, exc |-> "binascii.Error"]
       ELSE [data |-> Base64Text(t[1]), exc |-> ""]

\* str(ipaddress.ip_address(s)): an address in its canonical spelling, None for
\* the ValueError of a text that is no address
ip_address(s) ==
    CASE s = <<"10.0.0.1">> -> <<"10.0.0.1">>
      [] s = <<"10.0.0.2">> -> <<"10.0.0.2">>
      [] s = <<"10.0.0.9">> -> <<"10.0.0.9">>
      [] s = <<"0::1">> -> <<"::1">>
      [] OTHER -> None

\* A JSON object is one symbol.  json.loads gives two spellings of an object the
\* same value, named here by the spelling json.dumps writes; "" for a symbol
\* that is no object.
JsonObject(b) ==
    CASE b = "{name: LabA}" -> "{name: LabA}"
      [] b = "{name:LabA}" -> "{name: LabA}"
      [] b = "{name: LabB}" -> "{name: LabB}"
      [] b = "{name: Other}" -> "{name: Other}"
      [] OTHER -> ""

\* project["name"] of a loaded object
ProjectName(obj) ==
    CASE obj = "{name: LabA}" -> <<"Lab", "A">>
      [] obj = "{name: LabB}" -> <<"Lab", "B">>
      [] obj = "{name: Other}" -> <<"Other">>
      [] OTHER -> None

\* the elements of the text between '[' and ']', None when it is no list of
\* objects separated by ',' and blanks
RECURSIVE JsonElements(_, _)
JsonElements(s, acc) ==
    IF s = <<>> THEN acc
    ELSE IF Head(s) \in Whitespace THEN JsonElements(Tail(s), acc)
    ELSE IF JsonObject(Head(s)) = "" THEN None
    ELSE IF LStrip(Tail(s)) = <<>> THEN Append(acc, JsonObject(Head(s)))
    ELSE IF Head(LStrip(Tail(s))) # "," \/ LStrip(Tail(LStrip(Tail(s)))) = <<>> THEN None
    ELSE JsonElements(Tail(LStrip(Tail(s))), Append(acc, JsonObject(Head(s))))

\* json.loads(body): the list of objects, or the exception raised.  A text that
\* is one object loads as a dict, anything else is a JSONDecodeError.
json_loads(body) ==
    LET t == Strip(body)
    IN IF Len(t) >= 2 /\ t[1] = "[" /\ t[Len(t)] = "]"
          /\ JsonElements(SubSeq(t, 2, Len(t) - 1), <<>>) # None
       THEN [list |-> JsonElements(SubSeq(t, 2, Len(t) - 1), <<>>), dict |-> FALSE,
             exc |-> ""]
       ELSE IF Len(t) = 1 /\ JsonObject(t[1]) # ""
       THEN [list |-> <<>>, dict |-> TRUE, exc |-> ""]
       ELSE [list |-> <<>>, dict |-> FALSE, exc |-> "JSONDecodeError"]

\* json.dumps(list): the elements joined by ", "
json_dumps(list) ==
    <<"[">> \o Join([i \in 1..Len(list) |-> <<list[i]>>], <<",", SP>>) \o <<"]">>

-----------------------------------------------------------------------------
(* The packets the proxy makes up (src/gns3_proxy.py 113-158)              *)

PROXY_TUNNEL_ESTABLISHED_RESPONSE_PKT ==
    Join(<<<<"HTTP/1.1", SP, "200", SP, "Connection established">>, CRLF>>, CRLF)

BAD_GATEWAY_RESPONSE_PKT ==
    Join(<<<<"HTTP/1.1", SP, "502", SP, "Bad Gateway">>,
           <<"Content-Length", COLON, SP, "1", "1">>,
           <<"Connection", COLON, SP, "close">>,
           CRLF>>, CRLF) \o <<"Bad Gateway">>

PROXY_AUTHENTICATION_REQUIRED_RESPONSE_PKT ==
    Join(<<<<"HTTP/1.1", SP, "401", SP, "Unauthorized">>,
           <<"X-Route", COLON, SP, "/v2/version">>,
           <<"Connection", COLON, SP, "close">>,
           <<"Server", COLON, SP, "Python/3.4 GNS3/2.1.11">>,
           <<"WWW-Authenticate", COLON, SP, "Basic realm=\"GNS3 server\"">>,
           <<"Content-Length", COLON, SP, "0">>,
           <<"Content-Type", COLON, SP, "application/octet-stream">>,
           <<"Date", COLON, SP, "Fri, 15 Mar 2019 20:58:59 GMT">>,
           CRLF>>, CRLF)

\* the byte sequence "console_host": "0.0.0.0", that _process_response looks for
CONSOLE_HOST_ANY == <<"\"console_host\"", COLON, SP, "\"0.0.0.0\"", ",">>

-----------------------------------------------------------------------------
(* Connection, Server, Client (src/gns3_proxy.py 403-477)                  *)

\* Connection.__init__ of the accepted client
Client == [buffer |-> <<>>, closed |-> FALSE]

\* self.server = None
NoServer == [addr |-> None, buffer |-> <<>>, closed |-> FALSE]
\* Server.__init__(host, port); the port is the same for every backend
Server(host) == [addr |-> host, buffer |-> <<>>, closed |-> FALSE]

\* Connection.queue
queue(conn, data) == [conn EXCEPT !.buffer = @ \o data]

\* a flush that empties the buffer however many bytes send() took
flush_all(conn, sent) == [conn EXCEPT !.buffer = <<>>]

\* Connection.flush when send() took sent bytes
flush(conn, sent) == [conn EXCEPT !.buffer = Drop(@, sent)]

\* `self.server and not self.server.closed`
ServerOpen(p) == p.server # NoServer /\ ~p.server.closed

-----------------------------------------------------------------------------
(* Proxy._process_request (src/gns3_proxy.py 541-711)                      *)

\* One run of a handler: the objects it works on, its local variables, the
\* exception it raised (exc) and what it returned (ret).  go: the request is
\* complete and no check has failed; env: the sockets could behave as was
\* chosen for this run; flushed, topped: a choice was used.
World(p, n, l, i) ==
    [proxy |-> p, net |-> n, log |-> l, idle |-> i, exc |-> "", ret |-> FALSE,
     go |-> FALSE, env |-> TRUE, flushed |-> FALSE, topped |-> FALSE,
     username |-> None, password |-> None, backend_server |-> None, data |-> <<>>]

Raise(w, e) == [w EXCEPT !.exc = e, !.go = FALSE]

\* self.client.queue(data)
ClientQueue(w, data) ==
    [w EXCEPT !.proxy.client = queue(@, data), !.log.cqueued = @ \o data]

\* config_users: username in config_users, config_users[username]
HasUser(name) == \E i \in 1..Len(cfg.users) : cfg.users[i].name = name
PasswordOf(name) == cfg.users[CHOOSE i \in 1..Len(cfg.users) : cfg.users[i].name = name].password
\* config_servers: name in config_servers, config_servers[name]
HasServerName(name) == \E i \in 1..Len(cfg.servers) : cfg.servers[i].name = name
AddressOf(name) == cfg.servers[CHOOSE i \in 1..Len(cfg.servers) : cfg.servers[i].name = name].addr

\* 546-548: the backend is connected, the bytes are piped
Piped(w, data) ==
    [w EXCEPT !.proxy.server = queue(@, data), !.log.piped = @ \o data]

\* 551-555: r is the result of self.request.parse(data)
Parsed(w, r) ==
    [w EXCEPT !.proxy.request = r.self, !.exc = r.exc,
              !.go = (r.exc = "" /\ r.self.state = COMPLETE)]

\* 573-583: the user is looked up and the password compared
CheckUser(w) ==
    IF HasUser(w.username) /\ PasswordOf(w.username) = w.password
    THEN [w EXCEPT !.proxy.username = w.username]
    ELSE Raise(w, "ProxyAuthenticationFailed")

\* 564-569: auth_request is the decoded text split at every ':'
Credentials(w, auth_request) ==
    IF Len(auth_request) < 2 THEN Raise(w, "IndexError")
    ELSE CheckUser([w EXCEPT !.username = auth_request[1],
                             !.password = IF auth_request[2] = <<>> THEN None
                                          ELSE auth_request[2]])

\* 563: d is the result of b64decode
Decoded(w, d) ==
    IF d.exc # "" THEN Raise(w, d.exc) ELSE Credentials(w, SplitOn(d.data, COLON))

\* 562-587
Authenticate(w) ==
    IF ~w.go THEN w
    ELSE IF ~HasHeader(w.proxy.request.headers, <<"authorization">>)
    THEN Raise(w, "ProxyAuthenticationFailed")
    ELSE Decoded(w, b64decode(Drop(Header(w.proxy.request.headers,
                                          <<"authorization">>).value, 6)))

\* 598-604, 644-650: the rule's user pattern matches a configured user and that
\* user is the one of the request
RuleUser(pat, username) ==
    \E i \in 1..Len(cfg.users) :
        fullmatch(pat, cfg.users[i].name) /\ username = cfg.users[i].name

\* 615-624: what the test of a deny rule comes to.  The header pattern is matched
\* against the headers dict and the body pattern against a body that may be
\* None: re.fullmatch raises TypeError for both.
DenyOutcome(item, request) ==
    IF ~(item.method = <<>> \/ fullmatch(item.method, request.method)) THEN "pass"
    ELSE IF ~(item.url = <<>> \/ fullmatch(item.url, request.url.path)) THEN "pass"
    ELSE IF item.header # <<>> THEN "TypeError"
    ELSE IF item.body = <<>> THEN "ProxyAuthenticationFailed"
    ELSE IF request.body = None THEN "TypeError"
    ELSE IF fullmatch(item.body, request.body) THEN "ProxyAuthenticationFailed"
    ELSE "pass"

\* 597-627: the deny rules from the i-th on
RECURSIVE DenyFrom(_, _)
DenyApply(w, i, outcome) ==
    IF outcome = "pass" THEN DenyFrom(w, i + 1) ELSE Raise(w, outcome)
DenyFrom(w, i) ==
    IF i > Len(cfg.deny) THEN w
    ELSE IF RuleUser(cfg.deny[i].user, w.username)
    THEN DenyApply(w, i, DenyOutcome(cfg.deny[i], w.proxy.request))
    ELSE DenyFrom(w, i + 1)

\* Deny, were the rules never looked at
DenySkipped(w) == w

\* 596-627
Deny(w) == IF ~w.go THEN w ELSE DenyFrom(w, 1)

\* 643-661: the mappings from the i-th on; `break` leaves the loop over the
\* users only, so every later mapping is tried as well
RECURSIVE MappingFrom(_, _)
MappingFrom(w, i) ==
    IF i > Len(cfg.mapping) THEN w
    ELSE IF ~RuleUser(cfg.mapping[i].match, w.username) THEN MappingFrom(w, i + 1)
    ELSE IF HasServerName(cfg.mapping[i].server)
    THEN MappingFrom([w EXCEPT !.backend_server = AddressOf(cfg.mapping[i].server)], i + 1)
    ELSE Raise(w, "ProxyError")

\* a mapping to an unknown server passed over for the default server
SelectMappingLenient(w) ==
    IF ~w.go THEN w
    ELSE IF MappingFrom(w, 1).exc = "ProxyError" THEN w
    ELSE MappingFrom(w, 1)

\* 639-661
SelectMapping(w) == IF ~w.go THEN w ELSE MappingFrom(w, 1)

\* the default server taken whatever the mappings chose
SelectDefaultAlways(w) ==
    IF ~w.go THEN w
    ELSE IF cfg.default_server = None THEN Raise(w, "ProxyAuthenticationFailed")
    ELSE IF HasServerName(cfg.default_server)
    THEN [w EXCEPT !.backend_server = AddressOf(cfg.default_server)]
    ELSE IF ip_address(cfg.default_server) = None THEN Raise(w, "ProxyError")
    ELSE [w EXCEPT !.backend_server = ip_address(cfg.default_server)]

\* a default server that names nothing refused like an unset one
SelectDefaultRefusing(w) ==
    IF ~w.go \/ w.backend_server # None THEN w
    ELSE IF cfg.default_server = None THEN Raise(w, "ProxyAuthenticationFailed")
    ELSE IF HasServerName(cfg.default_server)
    THEN [w EXCEPT !.backend_server = AddressOf(cfg.default_server)]
    ELSE IF ip_address(cfg.default_server) = None THEN Raise(w, "ProxyAuthenticationFailed")
    ELSE [w EXCEPT !.backend_server = ip_address(cfg.default_server)]

\* 664-684
SelectDefault(w) ==
    IF ~w.go \/ w.backend_server # None THEN w
    ELSE IF cfg.default_server = None THEN Raise(w, "ProxyAuthenticationFailed")
    ELSE IF HasServerName(cfg.default_server)
    THEN [w EXCEPT !.backend_server = AddressOf(cfg.default_server)]
    ELSE IF ip_address(cfg.default_server) = None THEN Raise(w, "ProxyError")
    ELSE [w EXCEPT !.backend_server = ip_address(cfg.default_server)]

\* a connection to the backend as it is when established: what the backend will
\* send, what has arrived at the proxy unread, end of stream, what the backend
\* got, how many sends it made
Peer(bytes) == [tosend |-> bytes, arrived |-> <<>>, eof |-> FALSE, got |-> <<>>, sends |-> 0]

\* 686-693: Server(...) and connect(); a backend that is up accepts and will
\* send its answer
Connect(w) ==
    IF ~w.go THEN w
    ELSE IF w.net.up
    THEN [w EXCEPT !.proxy.server = Server(w.backend_server),
                   !.log.dials = Append(@, w.backend_server),
                   !.net.backend = Peer(w.net.answer)]
    ELSE Raise([w EXCEPT !.proxy.server = [Server(w.backend_server) EXCEPT !.closed = TRUE],
                         !.log.dials = Append(@, w.backend_server)],
               "ProxyConnectionFailed")

\* 703-711: req is the request rebuilt
Forwarded(w, req) ==
    [w EXCEPT !.proxy.server = queue(@, req), !.log.forwards = Append(@, req)]

\* 698-711
Forward(w) ==
    IF ~w.go THEN w
    ELSE IF w.proxy.request.method = <<"CONNECT">>
    THEN ClientQueue(w, PROXY_TUNNEL_ESTABLISHED_RESPONSE_PKT)
    ELSE Forwarded(w, build(w.proxy.request, {<<"authorization">>},
                            <<<<<<"Authorization">>, cfg.backend_auth_code>>>>))

process_request(w, data) ==
    IF ServerOpen(w.proxy) THEN Piped(w, data)
    ELSE Forward(Connect(SelectDefault(SelectMapping(Deny(Authenticate(
             Parsed(w, parse(w.proxy.request, data))))))))

-----------------------------------------------------------------------------
(* Proxy._process_response (src/gns3_proxy.py 713-814)                     *)

\* how many backend sends (and client sends) a session sees at most
MaxReads == 2

\* 718: r is the result of self.response.parse(data)
ResponseParsed(w, r) == [w EXCEPT !.proxy.response = r.self, !.exc = r.exc]

\* self.response.headers[b'x-route'][1].lower(), None without the header
Route(w) ==
    IF HasHeader(w.proxy.response.headers, <<"x-route">>)
    THEN Lower(Header(w.proxy.response.headers, <<"x-route">>).value)
    ELSE None

\* 727-732: the project filters whose match pattern fits the session's user
UserProjectFilters(w) ==
    SelectSeq(cfg.project_filter, LAMBDA pf : fullmatch(pf.match, w.proxy.username))

\* 735-736: data[:data.find(CRLFCRLF)] and data[data.find(CRLFCRLF):]; find
\* gives -1 when the blank line is not in data
header_block(data) ==
    IF Find(data, CRLF \o CRLF) = -1 THEN Take(data, Len(data) - 1)
    ELSE Take(data, Find(data, CRLF \o CRLF))
body_of(data) ==
    IF Find(data, CRLF \o CRLF) = -1 THEN Drop(data, Len(data) - 1)
    ELSE Drop(data, Find(data, CRLF \o CRLF))

\* 739-741: content_length after the loop over the lines; -2: never assigned,
\* -1: int() raised
RECURSIVE ContentLength(_, _)
ContentLength(lines, content_length) ==
    IF lines = <<>> THEN content_length
    ELSE IF ~StartsWith(Head(lines), <<"Content-Length", COLON>>)
    THEN ContentLength(Tail(lines), content_length)
    ELSE IF int(SplitOn(Head(lines), COLON)[2], 10) = -1 THEN -1
    ELSE ContentLength(Tail(lines), int(SplitOn(Head(lines), COLON)[2], 10))

\* the two loops the other way round: over projects and, inside, over filters
RECURSIVE AllowByProject(_, _, _, _)
AllowByProject(filters, projects, i, projects_filtered) ==
    IF i >= Len(filters) * Len(projects) THEN projects_filtered
    ELSE IF /\ fullmatch(filters[(i % Len(filters)) + 1].filter,
                         ProjectName(projects[(i \div Len(filters)) + 1]))
            /\ \A j \in 1..Len(projects_filtered) :
                   projects_filtered[j] # projects[(i \div Len(filters)) + 1]
    THEN AllowByProject(filters, projects, i + 1,
                        Append(projects_filtered, projects[(i \div Len(filters)) + 1]))
    ELSE AllowByProject(filters, projects, i + 1, projects_filtered)

\* 753-758: the loop over filters and, inside, over projects, at its i-th step
RECURSIVE Allow(_, _, _, _)
Allow(filters, projects, i, projects_filtered) ==
    IF i >= Len(filters) * Len(projects) THEN projects_filtered
    ELSE IF /\ fullmatch(filters[(i \div Len(projects)) + 1].filter,
                         ProjectName(projects[(i % Len(projects)) + 1]))
            /\ \A j \in 1..Len(projects_filtered) :
                   projects_filtered[j] # projects[(i % Len(projects)) + 1]
    THEN Allow(filters, projects, i + 1,
               Append(projects_filtered, projects[(i % Len(projects)) + 1]))
    ELSE Allow(filters, projects, i + 1, projects_filtered)

\* 764-769: the header lines written again, Content-Length with the new length
RECURSIVE HeaderBlockOut(_, _)
HeaderBlockOut(lines, body) ==
    IF lines = <<>> THEN <<>>
    ELSE (IF StartsWith(Head(lines), <<"Content-Length", COLON>>)
          THEN <<"Content-Length", COLON, SP>> \o str(Len(body))
          ELSE Head(lines)) \o CRLF \o HeaderBlockOut(Tail(lines), body)

\* 763-772: body is json.dumps(projects_filtered)
NewData(w, lines, body) ==
    [w EXCEPT !.data = HeaderBlockOut(lines, body) \o CRLF \o body]

\* 749-774: j is the result of json.loads(body); a dict is walked key by key
\* and project["name"] on a key raises TypeError
Rewritten(w, lines, j) ==
    IF j.exc # "" THEN w
    ELSE IF j.dict THEN Raise(w, "TypeError")
    ELSE NewData(w, lines, json_dumps(Allow(UserProjectFilters(w), j.list, 0, <<>>)))

\* the body is complete: the test that ends the loop 742-747
BodyComplete(data, content_length) == Len(body_of(data)) - 4 >= content_length

\* 745: what the reads of the loop brought, t bytes in all
ToppedUp(w, t) ==
    [w EXCEPT !.data = @ \o Take(w.net.backend.tosend, t),
              !.log.sread = @ \o Take(w.net.backend.tosend, t),
              !.net.backend.tosend = Drop(@, t),
              !.net.backend.sends = @ + 1,
              !.topped = TRUE]

\* 742-747: the loop reads until the body is complete.  t > 0: its reads brought
\* t bytes in all; t = -1: the backend closed before that and recv returned
\* None; t = -2: the backend sent too little and stays silent, recv never
\* returns.  lines are the lines of the header block of the first read.
TopUp(w, lines, content_length, t) ==
    IF content_length = -1 THEN Raise(w, "ValueError")
    ELSE IF content_length = -2 THEN Raise(w, "UnboundLocalError")
    ELSE IF BodyComplete(w.data, content_length)
    THEN Rewritten(w, lines, json_loads(body_of(w.data)))
    ELSE IF /\ t \in 1..Len(w.net.backend.tosend)
            /\ BodyComplete(w.data \o Take(w.net.backend.tosend, t), content_length)
            /\ (w.net.backend.sends + 1 < MaxReads \/ t = Len(w.net.backend.tosend))
    THEN Rewritten(ToppedUp(w, t), lines,
                   json_loads(body_of(w.data \o Take(w.net.backend.tosend, t))))
    ELSE IF /\ t \in {-1, -2}
            /\ ~BodyComplete(w.data \o w.net.backend.tosend, content_length)
    THEN Raise(ToppedUp(w, Len(w.net.backend.tosend)),
               IF t = -1 THEN "TypeError" ELSE "BLOCKED")
    ELSE [w EXCEPT !.env = FALSE]

\* 721-774
Filter(w, t) ==
    IF \/ w.exc # ""
       \/ cfg.project_filter = <<>>
       \/ Route(w) # <<"/v2/projects">>
       \/ UserProjectFilters(w) = <<>>
    THEN w
    ELSE TopUp(w, SplitLines(header_block(w.data)),
               ContentLength(SplitLines(header_block(w.data)), -2), t)

\* 782-791
CheckConsoleHost(w) ==
    IF /\ w.exc = ""
       /\ Route(w) = <<"/v2/projects/{project_id}/nodes">>
       /\ Find(w.data, CONSOLE_HOST_ANY) # -1
    THEN Raise(w, "ProxyError")
    ELSE w

\* 814
Queued(w) == IF w.exc # "" \/ ~w.env THEN w ELSE ClientQueue(w, w.data)

process_response(w, data, t) ==
    IF w.proxy.request.method = <<"CONNECT">> THEN ClientQueue(w, data)
    ELSE Queued(CheckConsoleHost(Filter(
             ResponseParsed([w EXCEPT !.data = data], parse(w.proxy.response, data)), t)))

-----------------------------------------------------------------------------
(* Proxy._process_wlist, _process_rlist, _process, run (837-919)           *)
(* A turn of the loop of _process is one step: the peers act between turns. *)

\* how many times in a session send() takes less than the whole buffer
MaxShort == 1

\* the bytes send() took of a buffer: all of it for f = 0, one byte for a short
\* send, f = 1
Sent(buffer, f) == IF f = 0 THEN Len(buffer) ELSE f

\* self.client.flush(); a short send leaves bytes in the buffer
ClientFlush(w, f) ==
    [w EXCEPT !.proxy.client = flush(@, Sent(w.proxy.client.buffer, f)),
              !.net.client.got = @ \o Take(w.proxy.client.buffer, Sent(w.proxy.client.buffer, f)),
              !.net.shorts = @ + f,
              !.env = (@ /\ (f = 0 \/ (f < Len(w.proxy.client.buffer)
                                       /\ w.net.shorts < MaxShort)))]

\* self.server.flush()
ServerFlush(w, f) ==
    [w EXCEPT !.proxy.server = flush(@, Sent(w.proxy.server.buffer, f)),
              !.net.backend.got = @ \o Take(w.proxy.server.buffer, Sent(w.proxy.server.buffer, f)),
              !.net.shorts = @ + f,
              !.env = (@ /\ (f = 0 \/ (f < Len(w.proxy.server.buffer)
                                       /\ w.net.shorts < MaxShort)))]

\* 837-844; fc, fs = -1: the socket is not in w
process_wlist(w, fc, fs) ==
    IF fs = -1
    THEN (IF fc = -1 THEN w ELSE ClientFlush(w, fc))
    ELSE ServerFlush(IF fc = -1 THEN w ELSE ClientFlush(w, fc), fs)

\* 896-901
get_response_pkt_by_exception(e) ==
    IF e = "ProxyAuthenticationFailed" THEN PROXY_AUTHENTICATION_REQUIRED_RESPONSE_PKT
    ELSE BAD_GATEWAY_RESPONSE_PKT

\* 859-863: the two exceptions _process_rlist catches
Caught(w, f) ==
    IF w.exc \in {"ProxyAuthenticationFailed", "ProxyConnectionFailed"}
    THEN ClientFlush(ClientQueue([w EXCEPT !.exc = "", !.ret = TRUE, !.flushed = TRUE],
                                 get_response_pkt_by_exception(w.exc)), f)
    ELSE w

\* select() reports a socket readable when bytes have arrived or the peer has
\* shut its side down
Readable(peer) == peer.arrived # <<>> \/ peer.eof

\* 850-851, 867-868: recv takes what has arrived and last_activity is set
ClientReceived(w) == [w EXCEPT !.net.client.arrived = <<>>, !.idle = FALSE]
ServerReceived(w) ==
    [w EXCEPT !.net.backend.arrived = <<>>, !.idle = FALSE,
              !.log.sread = @ \o w.net.backend.arrived]

\* 848-863
ClientPart(w, f) ==
    IF ~Readable(w.net.client) THEN w
    ELSE IF w.net.client.arrived = <<>> THEN [w EXCEPT !.ret = TRUE, !.idle = FALSE]
    ELSE Caught(process_request(ClientReceived(w), w.net.client.arrived), f)

\* 865-874; a server connected in this very call is not in r
ServerPart(w, t) ==
    IF w.ret \/ w.exc # "" \/ ~ServerOpen(w.proxy) \/ ~Readable(w.net.backend) THEN w
    ELSE IF w.net.backend.arrived = <<>>
    THEN [w EXCEPT !.proxy.server.closed = TRUE, !.idle = FALSE]
    ELSE process_response(ServerReceived(w), w.net.backend.arrived, t)

\* 846-876
process_rlist(w, f, t) == ServerPart(ClientPart(w, f), t)

\* the session before a turn of the loop
Now == World(proxy, net, log, idle)

\* the choices a flush has for a buffer: -1 not writable, 0 all, 1 a short send
WriteChoices(buffer) == IF buffer = <<>> THEN {-1} ELSE {-1, 0, 1}

\* 880-894: one turn of the loop of _process, from select() to the tests that
\* leave the loop
_process(w, fc, fs, f, t) == process_rlist(process_wlist(w, fc, fs), f, t)

\* the inactivity test made whatever the client buffer holds
PcAfterAnyBuffer(w) ==
    IF w.exc \in {"LOOP", "BLOCKED"} THEN "hung"
    ELSE IF w.exc # "" \/ w.ret THEN "done"
    ELSE IF \/ Len(w.proxy.client.buffer) = 0 /\ w.proxy.response.state = COMPLETE
            \/ w.idle
    THEN "done"
    ELSE "loop"

\* 884-894, 909-910: where a turn that ended as w leaves the session
PcAfter(w) ==
    IF w.exc \in {"LOOP", "BLOCKED"} THEN "hung"
    ELSE IF w.exc # "" \/ w.ret THEN "done"
    ELSE IF /\ Len(w.proxy.client.buffer) = 0
            /\ (w.proxy.response.state = COMPLETE \/ w.idle)
    THEN "done"
    ELSE "loop"

\* Turned, were the inactivity test of 892-894 left out
TurnedWithoutTimeout(w, f, t) ==
    /\ w.env
    /\ f = 0 \/ w.flushed
    /\ t = 0 \/ w.topped
    /\ proxy' = w.proxy
    /\ net' = w.net
    /\ log' = w.log
    /\ idle' = w.idle
    /\ fault' = w.exc
    /\ pc' = IF w.exc \in {"LOOP", "BLOCKED"} THEN "hung"
             ELSE IF w.exc # "" \/ w.ret THEN "done"
             ELSE IF /\ Len(w.proxy.client.buffer) = 0
                     /\ w.proxy.response.state = COMPLETE
             THEN "done"
             ELSE "loop"

\* the state after a turn that ended as w: _process_rlist returned True
\* (884-885), the client buffer is empty and the response complete or the
\* session inactive (887-894), an exception left _process for run (909-910),
\* or a call never returned
Turned(w, f, t) ==
    /\ w.env
    /\ f = 0 \/ w.flushed
    /\ t = 0 \/ w.topped
    /\ proxy' = w.proxy
    /\ net' = w.net
    /\ log' = w.log
    /\ idle' = w.idle
    /\ fault' = w.exc
    /\ pc' = PcAfter(w)

\* a turn of the loop.  fc, fs: what the flushes of client and server sent;
\* f: what the flush of a 401 or 502 sent; t: what the filter read on top
Process ==
    /\ pc = "loop"
    /\ \E fc \in WriteChoices(proxy.client.buffer),
          fs \in (IF ServerOpen(proxy) /\ proxy.server.buffer # <<>> THEN {0, 1} ELSE {-1}),
          f \in (IF net.client.arrived # <<>> /\ ~ServerOpen(proxy) THEN {0, 1} ELSE {0}),
          t \in (IF cfg.project_filter = <<>> \/ net.backend.arrived = <<>> THEN {0}
                 ELSE -2..Len(net.backend.tosend)) :
           Turned(_process(Now, fc, fs, f, t), f, t)
    /\ UNCHANGED <<input, cp, hp, hp2, feed, cfg>>

\* 911-914: run's finally closes the client connection
RunFinally ==
    /\ pc = "done"
    /\ proxy' = [proxy EXCEPT !.client.closed = TRUE]
    /\ pc' = "closed"
    /\ UNCHANGED <<input, cp, hp, hp2, feed, fault, cfg, net, idle, log>>

-----------------------------------------------------------------------------
(* The two peers of a session                                              *)

\* the client sends the next k bytes of its stream
ClientSends ==
    /\ pc = "loop"
    /\ net.client.tosend # <<>>
    /\ net.client.arrived = <<>>
    /\ net.client.sends < MaxReads
    /\ \E k \in 1..Len(net.client.tosend) :
        /\ net.client.sends + 1 < MaxReads \/ k = Len(net.client.tosend)
        /\ net' = [net EXCEPT !.client.arrived = Take(net.client.tosend, k),
                              !.client.tosend = Drop(@, k),
                              !.client.sends = @ + 1]
    /\ UNCHANGED <<input, cp, hp, hp2, feed, fault, cfg, proxy, pc, idle, log>>

\* the client has sent everything and shuts its side down
ClientCloses ==
    /\ pc = "loop"
    /\ net.client.tosend = <<>>
    /\ net.client.arrived = <<>>
    /\ ~net.client.eof
    /\ net' = [net EXCEPT !.client.eof = TRUE]
    /\ UNCHANGED <<input, cp, hp, hp2, feed, fault, cfg, proxy, pc, idle, log>>

\* the connected backend sends the next k bytes of its stream
BackendSends ==
    /\ pc = "loop"
    /\ ServerOpen(proxy)
    /\ net.backend.tosend # <<>>
    /\ net.backend.arrived = <<>>
    /\ net.backend.sends < MaxReads
    /\ \E k \in 1..Len(net.backend.tosend) :
        /\ net.backend.sends + 1 < MaxReads \/ k = Len(net.backend.tosend)
        /\ net' = [net EXCEPT !.backend.arrived = Take(net.backend.tosend, k),
                              !.backend.tosend = Drop(@, k),
                              !.backend.sends = @ + 1]
    /\ UNCHANGED <<input, cp, hp, hp2, feed, fault, cfg, proxy, pc, idle, log>>

\* the connected backend has sent everything and closes
BackendCloses ==
    /\ pc = "loop"
    /\ ServerOpen(proxy)
    /\ net.backend.tosend = <<>>
    /\ net.backend.arrived = <<>>
    /\ ~net.backend.eof
    /\ net' = [net EXCEPT !.backend.eof = TRUE]
    /\ UNCHANGED <<input, cp, hp, hp2, feed, fault, cfg, proxy, pc, idle, log>>

\* 468: create_connection() is answered anew at every dial; a backend whose
\* connection has closed may refuse the next one
BackendRefuses ==
    /\ pc = "loop"
    /\ net.up
    /\ proxy.server # NoServer
    /\ proxy.server.closed
    /\ net' = [net EXCEPT !.up = FALSE]
    /\ UNCHANGED <<input, cp, hp, hp2, feed, fault, cfg, proxy, pc, idle, log>>

\* 538-539: more than 30 s pass in select() with nothing to read.  A peer that
\* has bytes left to send does not wait that long.
Elapse ==
    /\ pc = "loop"
    /\ ~idle
    /\ ~Readable(net.client)
    /\ net.client.tosend = <<>>
    /\ ~(ServerOpen(proxy) /\ (Readable(net.backend) \/ net.backend.tosend # <<>>))
    /\ idle' = TRUE
    /\ UNCHANGED <<input, cp, hp, hp2, feed, fault, cfg, proxy, net, pc, log>>

-----------------------------------------------------------------------------
(* The sessions looked at: a configuration, what the client sends, what    *)
(* the backend answers, whether the backend can be reached                 *)

Users == <<[name |-> <<"alice">>, password |-> <<"pw1">>],
           [name |-> <<"bob">>, password |-> <<"pw2">>],
           [name |-> <<"carol">>, password |-> <<>>],
           [name |-> <<"dave">>, password |-> <<"d", COLON, "q">>]>>
Servers == <<[name |-> <<"labA">>, addr |-> <<"10.0.0.1">>],
             [name |-> <<"labB">>, addr |-> <<"10.0.0.2">>]>>

\* b'Basic ' + a base64 text
Basic(b) == <<"B", "a", "s", "i", "c", SP, b>>

\* the configuration main() hands to every session (1067, 1106-1180); a section
\* that is empty is the empty list
Config(mapping, deny, project_filter, default_server) ==
    [users |-> Users, servers |-> Servers, mapping |-> mapping, deny |-> deny,
     project_filter |-> project_filter, default_server |-> default_server,
     backend_auth_code |-> Basic("YWRtaW46cGFzc3dvcmQ=")]

Mapping(match, server) == [match |-> match, server |-> server]
DenyRule(user, method, url, header, body) ==
    [user |-> user, method |-> method, url |-> url, header |-> header, body |-> body]
ProjectFilter(match, filter) == [match |-> match, filter |-> filter]

\* a request: start line, header lines, blank line, body
RequestOf(method, lines, body) ==
    <<method, SP, "/", "p", SP, "HTTP/1.1">> \o CRLF
    \o Concat([i \in 1..Len(lines) |-> lines[i] \o CRLF]) \o CRLF \o body
Authorization(value) == <<"Authorization", COLON, SP>> \o value
Get(value) == RequestOf("GET", <<Authorization(value)>>, <<>>)
Post(value, body) ==
    RequestOf("POST", <<Authorization(value), <<"Content-Length", COLON, SP>> \o str(Len(body))>>,
              body)

\* a response: status line, X-Route, one more header line, blank line, body
ResponseOf(route, line, body) ==
    <<"HTTP/1.1", SP, "200", SP, "OK">> \o CRLF
    \o <<"X-Route", COLON, SP, route>> \o CRLF
    \o line \o CRLF \o CRLF \o body
WithLength(route, body) ==
    ResponseOf(route, <<"Content-Length", COLON, SP>> \o str(Len(body)), body)
ChunkedResponse(route, chunks) ==
    ResponseOf(route, <<"Transfer-Encoding", COLON, SP, "chunked">>, Chunked(chunks))

\* base64 of alice:pw1, alice's own credential
AliceCredential == Basic("YWxpY2U6cHcx")

\* the answers of a backend
VersionResponse == WithLength("/v2/version", <<"{", "}">>)
ProjectsBody ==
    <<"[", "{name:LabA}", ",", "{name: Other}", ",", SP, "{name: LabB}", "]">>
ProjectsResponse == WithLength("/v2/projects", ProjectsBody)
NodesResponse ==
    WithLength("/v2/projects/{project_id}/nodes",
               <<"[", "{">> \o CONSOLE_HOST_ANY \o <<"\"x\"", COLON, SP, "1", "}", "]">>)

Session(c, client, backend, up) ==
    [cfg |-> c, client |-> client, backend |-> backend, up |-> up]

\* credentials right and wrong, and no Authorization header
AuthSessions ==
    {Session(Config(<<>>, <<>>, <<>>, <<"labA">>), client, VersionResponse, up) :
        client \in {Get(Basic(b)) : b \in {"YWxpY2U6cHcx", "YWxpY2U6Ym9ndXM=",
                                           "bWFsbG9yeTpwdzE=", "YWxpY2U6cHcxOng="}}
                   \cup {RequestOf("GET", <<<<"Host", COLON, SP, "h">>>>, <<>>)},
        up \in BOOLEAN}

\* deny rules on method and path, on the headers, on the body, for another user
DenySessions ==
    {Session(Config(<<>>, <<rule>>, <<>>, <<"labA">>), client, VersionResponse, TRUE) :
        rule \in {DenyRule(<<"alice">>, <<"POST">>, <<"/", ANY>>, <<>>, <<>>),
                  DenyRule(<<ANY>>, <<>>, <<>>, <<ANY>>, <<>>),
                  DenyRule(<<ANY>>, <<>>, <<>>, <<>>, <<"{", ANY>>),
                  DenyRule(<<"bob">>, <<>>, <<>>, <<>>, <<>>)},
        client \in {Get(AliceCredential), Post(AliceCredential, <<"{", "}">>)}}

\* one mapping or two, with and without a default server
MappingSessions ==
    {Session(Config(mapping, <<>>, <<>>, default_server), Get(AliceCredential),
             VersionResponse, TRUE) :
        mapping \in {<<Mapping(<<"alice">>, <<"labB">>)>>,
                     <<Mapping(<<ANY>>, <<"labA">>), Mapping(<<"alice">>, <<"labB">>)>>,
                     <<Mapping(<<"alice">>, <<"labB">>), Mapping(<<ANY>>, <<"labA">>)>>,
                     <<Mapping(<<"bob">>, <<"labB">>)>>},
        default_server \in {None, <<"labA">>}}

\* a default server that is an address, in the spelling of the configuration,
\* or a name that no server has
DefaultSessions ==
    {Session(Config(mapping, <<>>, <<>>, default_server), Get(AliceCredential),
             VersionResponse, TRUE) :
        mapping \in {<<>>, <<Mapping(<<"bob">>, <<"labB">>)>>,
                     <<Mapping(<<"alice">>, <<"labB">>)>>},
        default_server \in {<<"10.0.0.9">>, <<"0::1">>, <<"labX">>}}

\* a mapping to a server that the configuration does not have, alone, before
\* and after one that it has
UnknownServerSessions ==
    {Session(Config(mapping, <<>>, <<>>, default_server), Get(AliceCredential),
             VersionResponse, TRUE) :
        mapping \in {<<Mapping(<<"alice">>, <<"labX">>)>>,
                     <<Mapping(<<ANY>>, <<"labA">>), Mapping(<<"alice">>, <<"labX">>)>>,
                     <<Mapping(<<"alice">>, <<"labX">>), Mapping(<<ANY>>, <<"labA">>)>>},
        default_server \in {None, <<"labA">>}}

\* one request or two on the connection, answered with a length, in chunks, or
\* not at all
RelaySessions ==
    {Session(Config(<<>>, <<>>, <<>>, <<"labA">>), client, backend, TRUE) :
        client \in {Get(AliceCredential),
                    Get(AliceCredential) \o Get(AliceCredential),
                    RequestOf("GET", <<Authorization(AliceCredential),
                                       <<"X-Tag", COLON, SP>> \o AliceCredential>>, <<>>)},
        backend \in {VersionResponse, ChunkedResponse("/v2/other", <<<<"x">>>>), <<>>}}

\* project filters for the user, for the user twice, for another user; the
\* project list alone and followed by the answer to a second request
FilterSessions ==
    {Session(Config(<<>>, <<>>, project_filter, <<"labA">>), Get(AliceCredential),
             backend, TRUE) :
        project_filter \in
            {<<ProjectFilter(<<"alice">>, <<"Lab", ANY>>)>>,
             <<ProjectFilter(<<ANY>>, <<"Other">>), ProjectFilter(<<"alice">>, <<ANY>>)>>,
             <<ProjectFilter(<<"bob">>, <<ANY>>)>>},
        backend \in {ProjectsResponse, ProjectsResponse \o VersionResponse}}

\* a backend that has sent the project list short of its last byte and sends
\* no more
StalledSessions ==
    {Session(Config(<<>>, <<>>, <<ProjectFilter(<<"alice">>, <<"Lab", ANY>>)>>, <<"labA">>),
             Get(AliceCredential), Take(ProjectsResponse, Len(ProjectsResponse) - 1), TRUE)}

\* a project list that is cut off, and one project instead of a list
UndecodableSessions ==
    {Session(Config(<<>>, <<>>, <<ProjectFilter(<<"alice">>, <<"Lab", ANY>>)>>, <<"labA">>),
             Get(AliceCredential), WithLength("/v2/projects", body), TRUE) :
        body \in {<<"[", "{name:LabA}", ",">>, <<"{name:LabA}">>}}

\* a CONNECT request followed by two bytes for the far end, which sends two
TunnelSessions ==
    {Session(Config(<<>>, <<>>, <<>>, <<"labA">>),
             RequestOf("CONNECT", <<Authorization(AliceCredential)>>, <<>>) \o later,
             <<"s", "t">>, TRUE) :
        later \in {<<>>, <<"x", "y">>}}

\* a node list that shows console_host 0.0.0.0
NodesSessions ==
    {Session(Config(<<>>, <<>>, <<>>, <<"labA">>), Get(AliceCredential), NodesResponse, TRUE)}

\* a GET, then on the same connection a POST that a deny rule is written for
PipelinedDenySessions ==
    {Session(Config(<<>>, <<DenyRule(<<"alice">>, <<"POST">>, <<"/", ANY>>, <<>>, <<>>)>>, <<>>,
                    <<"labA">>),
             Get(AliceCredential) \o Post(AliceCredential, <<"{", "}">>), VersionResponse, TRUE)}

\* alice's credential under another scheme than Basic
SchemeSessions ==
    {Session(Config(<<>>, <<>>, <<>>, <<"labA">>),
             RequestOf("GET", <<Authorization(scheme \o <<SP, "YWxpY2U6cHcx">>)>>, <<>>),
             VersionResponse, TRUE) :
        scheme \in {<<"T", "o", "k", "e", "n">>, <<"B", "e", "a", "r", "e", "r">>}}

\* dave, whose stored password holds a colon, sends his name and that password
ColonPasswordSessions ==
    {Session(Config(<<>>, <<>>, <<>>, <<"labA">>), Get(Basic("ZGF2ZTpkOnE=")), VersionResponse,
             TRUE)}

\* credentials that are no user:password pair: no colon in the decoded text,
\* and base64 text of a wrong length
InvalidCredentialSessions ==
    {Session(Config(<<>>, <<>>, <<>>, <<"labA">>), Get(Basic(b)), VersionResponse, TRUE) :
        b \in {"YWxpY2U=", "YWxpY2U"}}

\* carol, whose stored password is empty, sends her name and an empty password
EmptyPasswordSessions ==
    {Session(Config(<<>>, <<>>, <<>>, <<"labA">>), Get(Basic("Y2Fyb2w6")), VersionResponse,
             TRUE)}

\* a request that gives a header twice
HeaderSessions ==
    {Session(Config(<<>>, <<>>, <<>>, <<"labA">>),
             RequestOf("GET", <<Authorization(AliceCredential),
                                <<"X-Tag", COLON, SP, "a">>,
                                <<"X-Tag", COLON, SP, "b">>>>, <<>>),
             VersionResponse, TRUE)}

\* the empty JSON object, and requests other than POST that carry it, with a
\* Content-Length header and without
EmptyJson == <<"{", "}">>
JsonRequests ==
    {RequestOf(method, <<Authorization(AliceCredential)>> \o length, EmptyJson) :
        method \in {"GET", "PUT", "DELETE"},
        length \in {<<>>, <<<<"Content-Length", COLON, SP>> \o str(Len(EmptyJson))>>}}
BodySessions ==
    {Session(Config(<<>>, <<>>, <<>>, <<"labA">>), client, VersionResponse, TRUE) :
        client \in JsonRequests}

Sessions ==
    AuthSessions \cup DenySessions \cup MappingSessions \cup RelaySessions
    \cup FilterSessions \cup NodesSessions \cup HeaderSessions \cup BodySessions
    \cup EmptyPasswordSessions \cup PipelinedDenySessions \cup SchemeSessions
    \cup ColonPasswordSessions \cup InvalidCredentialSessions
    \cup DefaultSessions \cup UnknownServerSessions \cup StalledSessions
    \cup UndecodableSessions \cup TunnelSessions

\* Proxy.__init__ (505-529) on an accepted connection
Proxy ==
    [client |-> Client, server |-> NoServer, request |-> HttpParser(REQUEST_PARSER),
     response |-> HttpParser(RESPONSE_PARSER), username |-> None]

Init ==
    /\ input \in Sessions
    /\ cfg = input.cfg
    /\ proxy = Proxy
    /\ net = [client |-> Peer(input.client), backend |-> Peer(<<>>), up |-> input.up,
              shorts |-> 0, answer |-> input.backend]
    /\ pc = "loop"
    /\ idle = FALSE
    /\ log = [dials |-> <<>>, forwards |-> <<>>, piped |-> <<>>, sread |-> <<>>,
              cqueued |-> <<>>]
    /\ fault = ""
    /\ cp = <<>> /\ hp = <<>> /\ hp2 = <<>> /\ feed = <<>>

Next ==
    \/ ClientSends
    \/ ClientCloses
    \/ BackendSends
    \/ BackendCloses
    \/ BackendRefuses
    \/ Elapse
    \/ Process
    \/ RunFinally

Spec == Init /\ [][Next]_vars

-----------------------------------------------------------------------------
(* What a session shows on its two connections                             *)

\* the header lines of the message at the head of bytes
HeaderLinesIn(bytes) == Tail(SplitLines(Take(bytes, Find(bytes, CRLF \o CRLF))))

\* its lines of the header called name
LinesNamed(bytes, name) ==
    SelectSeq(HeaderLinesIn(bytes), LAMBDA l : l # <<>> /\ Lower(<<l[1]>>) = name)

\* what follows its blank line
BodyIn(bytes) == Drop(bytes, Find(bytes, CRLF \o CRLF) + 4)

\* the requests that reached the backend: those the proxy built and the bytes
\* piped after them, once they hold a whole header block
ReachedBackend ==
    {log.forwards[i] : i \in 1..Len(log.forwards)}
    \cup (IF Find(log.piped, CRLF \o CRLF) = -1 THEN {} ELSE {log.piped})

\* the backend credential as a header line
BackendLine == build_header(<<"Authorization">>, cfg.backend_auth_code)

\* C1 as stated: every complete request that reaches the backend, the first
\* and the later ones, has exactly one Authorization header, it holds the
\* backend credential, and the value the client gave is nowhere in the bytes.
C1_EveryRequestBackendCredential ==
    \A r \in ReachedBackend :
        /\ LinesNamed(r, <<"authorization">>) = <<BackendLine>>
        /\ HasHeader(proxy.request.headers, <<"authorization">>)
           => Find(r, Header(proxy.request.headers, <<"authorization">>).value) = -1

\* C1, amended: every request the proxy builds and queues for the backend has
\* exactly one Authorization header and it holds the backend credential.
C1_BuiltRequestBackendCredential ==
    \A i \in 1..Len(log.forwards) :
        LinesNamed(log.forwards[i], <<"authorization">>) = <<BackendLine>>

\* a session over: the backend got a built request and, after it, a second
\* request as the client wrote it
C1_Witness ==
    /\ pc = "closed"
    /\ Len(log.forwards) = 1
    /\ log.piped = Get(AliceCredential)
    /\ net.backend.got = log.forwards[1] \o log.piped
    /\ LinesNamed(log.piped, <<"authorization">>) = <<Authorization(AliceCredential)>>

\* the credential of a request read as documented: the decoded text up to its
\* first colon is the user, all that follows the password
Submitted(request) ==
    b64decode(Drop(Header(request.headers, <<"authorization">>).value, 6))
SubmittedUser(request) ==
    Take(Submitted(request).data, Find(Submitted(request).data, <<COLON>>))
SubmittedPassword(request) ==
    Drop(Submitted(request).data, Find(Submitted(request).data, <<COLON>>) + 1)

\* the request names a user and a password
HasCredentials(request) ==
    /\ request.state = COMPLETE
    /\ HasHeader(request.headers, <<"authorization">>)
    /\ Submitted(request).exc = ""
    /\ Find(Submitted(request).data, <<COLON>>) # -1

\* they are those of a configured user
CredentialsMatch(request) ==
    /\ HasCredentials(request)
    /\ HasUser(SubmittedUser(request))
    /\ PasswordOf(SubmittedUser(request)) = SubmittedPassword(request)

\* a field of a deny rule is empty or matches the text
FieldMatches(pat, text) == pat = <<>> \/ fullmatch(pat, text)

\* a deny rule applies to the request of the user.  Of the header patterns only
\* ".*" is read: it matches the headers whatever they are.
DenyApplies(item, request, username) ==
    /\ fullmatch(item.user, username)
    /\ FieldMatches(item.method, request.method)
    /\ FieldMatches(item.url, request.url.path)
    /\ item.header \in {<<>>, <<ANY>>}
    /\ FieldMatches(item.body, IF request.body = None THEN <<>> ELSE request.body)

Denied(request) ==
    \E i \in 1..Len(cfg.deny) : DenyApplies(cfg.deny[i], request, SubmittedUser(request))

\* C2: a backend endpoint exists only if the request is complete, its
\* credentials are those of a configured user, no deny rule applies and an
\* address was selected; once created it stays.
C2_EndpointOnlyForAllowedRequest ==
    /\ [](proxy.server # NoServer =>
            /\ CredentialsMatch(proxy.request)
            /\ ~Denied(proxy.request)
            /\ proxy.server.addr # None)
    /\ [][proxy.server # NoServer => proxy'.server # NoServer]_vars

\* C3: a request whose user is not configured or whose password differs from
\* the stored one opens no backend connection, and the session ends with the
\* 401 packet queued for the client.
C3_WrongCredentialsRefused ==
    (HasCredentials(proxy.request) /\ ~CredentialsMatch(proxy.request))
    => /\ log.dials = <<>>
       /\ pc = "closed" => log.cqueued = PROXY_AUTHENTICATION_REQUIRED_RESPONSE_PKT

\* C4: a request of an authenticated user to which a deny rule applies opens
\* no backend connection, and the session ends with the 401 packet queued for
\* the client.
C4_DeniedRequestRefused ==
    (CredentialsMatch(proxy.request) /\ Denied(proxy.request))
    => /\ log.dials = <<>>
       /\ pc = "closed" => log.cqueued = PROXY_AUTHENTICATION_REQUIRED_RESPONSE_PKT

\* the mappings whose pattern matches the user, by their place in the list
MatchingMappings(username) ==
    {i \in 1..Len(cfg.mapping) : fullmatch(cfg.mapping[i].match, username)}

\* C5: the backend dialled is the server of the first mapping, in the order of
\* the list, whose pattern matches the authenticated user.
C5_FirstMappingWins ==
    (log.dials # <<>> /\ MatchingMappings(proxy.username) # {})
    => log.dials[1] = AddressOf(cfg.mapping[
           CHOOSE i \in MatchingMappings(proxy.username) :
               \A j \in MatchingMappings(proxy.username) : i <= j].server)

\* the route the backend's answer names
RouteOf(bytes) ==
    IF LinesNamed(bytes, <<"x-route">>) = <<>> THEN None
    ELSE Lower(Drop(LinesNamed(bytes, <<"x-route">>)[1], 3))

\* C6: of an answer on a route other than /v2/projects and
\* /v2/projects/{project_id}/nodes, however it is split over the reads, the
\* bytes queued for the client are the bytes read from the backend, and with
\* the response complete the session ends with all of them sent to a client
\* that is still there.
C6_OtherRoutesRelayedUnchanged ==
    (/\ log.sread # <<>>
     /\ RouteOf(input.backend) \notin {<<"/v2/projects">>, <<"/v2/projects/{project_id}/nodes">>})
    => /\ pc # "hung"
       /\ log.cqueued = log.sread
       /\ (pc = "closed" /\ proxy.response.state = COMPLETE /\ ~net.client.eof)
          => net.client.got = log.sread

\* the projects of the backend's list a user may see
Allowed(username) ==
    {obj \in {json_loads(ProjectsBody).list[i] : i \in 1..Len(json_loads(ProjectsBody).list)} :
        \E k \in 1..Len(cfg.project_filter) :
            /\ fullmatch(cfg.project_filter[k].match, username)
            /\ fullmatch(cfg.project_filter[k].filter, ProjectName(obj))}

\* the list in the body of the response at the head of bytes, cut at its
\* Content-Length
ListIn(bytes) ==
    json_loads(Take(BodyIn(bytes), ContentLength(HeaderLinesIn(bytes), -2)))

\* C7: when a project filter matches the user, the body the client is sent for
\* a /v2/projects response is the list of the backend's projects that match one
\* of the user's filters, each once, and Content-Length is its length.
C7_ProjectListFiltered ==
    (/\ \E k \in 1..Len(cfg.project_filter) :
            fullmatch(cfg.project_filter[k].match, proxy.username)
     /\ StartsWith(log.sread, ProjectsResponse))
    => /\ Find(log.cqueued, CRLF \o CRLF) # -1
       /\ ListIn(log.cqueued).exc = ""
       /\ {ListIn(log.cqueued).list[i] : i \in 1..Len(ListIn(log.cqueued).list)}
              = Allowed(proxy.username)
       /\ Len(ListIn(log.cqueued).list) = Cardinality(Allowed(proxy.username))

\* C8: of a node list that holds "console_host": "0.0.0.0", wherever the reads
\* cut it, no byte is queued for the client, nor anything else, and the session
\* is aborted once the sequence has been read.
C8_ConsoleHostNeverForwarded ==
    (/\ RouteOf(input.backend) = <<"/v2/projects/{project_id}/nodes">>
     /\ Find(input.backend, CONSOLE_HOST_ANY) # -1)
    => /\ log.cqueued = <<>>
       /\ Find(log.sread, CONSOLE_HOST_ANY) # -1 => fault = "ProxyError"

\* a turn of the loop reads what has arrived from the client
ClientRead == net.client.arrived # <<>> /\ net'.client.arrived = <<>>

\* C11: once a backend endpoint exists, whatever is read from the client is
\* queued for the backend as it came, after what was piped before, and the
\* request parser is not touched nor a request built again.
C11_LaterBytesPiped ==
    [][(proxy.server # NoServer /\ ClientRead)
       => /\ log'.piped = log.piped \o net.client.arrived
          /\ proxy'.request = proxy.request
          /\ log'.forwards = log.forwards]_vars

\* the start line of the message at the head of bytes
StartLineIn(bytes) == Head(SplitLines(bytes))

\* its header lines but those called Authorization
OtherHeaders(bytes) ==
    SelectSeq(HeaderLinesIn(bytes),
              LAMBDA l : l = <<>> \/ Lower(<<l[1]>>) # <<"authorization">>)

\* two lists hold the same lines, each as often
Count(seq, x) == Cardinality({i \in 1..Len(seq) : seq[i] = x})
SameLines(a, b) ==
    \A x \in {a[i] : i \in 1..Len(a)} \cup {b[i] : i \in 1..Len(b)} :
        Count(a, x) = Count(b, x)

\* its body: as many bytes after the blank line as Content-Length says
DeclaredBody(bytes) ==
    Take(BodyIn(bytes), IF ContentLength(HeaderLinesIn(bytes), -2) < 0 THEN 0
                        ELSE ContentLength(HeaderLinesIn(bytes), -2))

\* C12: a request built for the backend has the request line and the body of
\* the request the client sent and, the Authorization header apart, the same
\* header lines, each as often.
C12_OnlyAuthorizationChanged ==
    \A i \in 1..Len(log.forwards) :
        /\ StartLineIn(log.forwards[i]) = StartLineIn(input.client)
        /\ SameLines(OtherHeaders(log.forwards[i]), OtherHeaders(input.client))
        /\ BodyIn(log.forwards[i]) = DeclaredBody(input.client)

\* every byte the client had to send was read by the proxy
ClientHeard ==
    net.client.tosend = <<>> /\ net.client.arrived = <<>> /\ net.client.sends > 0

\* everything queued for the backend, in the order it was queued
ToBackend == Concat(log.forwards) \o log.piped

\* C13: when a GET, PUT or DELETE request with the body {} has been read whole,
\* in one read or in two, with a Content-Length header or without, the request
\* parser is complete and the backend was queued the request with that body.
C13_JsonBodyCompletes ==
    (input.client \in JsonRequests /\ ClientHeard) =>
        /\ proxy.request.state = COMPLETE
        /\ Len(log.forwards) = 1
        /\ BodyIn(ToBackend) = EmptyJson

\* C14: a GET request without body and without Content-Length header, fed whole
\* in any fragments, leaves the request parser complete, whatever the number of
\* its header lines, none included.
C14_BodilessGetCompletes ==
    (input.method = <<"GET">> /\ input.cl = -1 /\ feed = <<>>) =>
        (fault = "" /\ hp.state = COMPLETE)

\* select() returns with nothing to read, the session inactive and nothing
\* queued for the client
IdleTick ==
    /\ pc = "loop"
    /\ idle
    /\ proxy.client.buffer = <<>>
    /\ ~Readable(net.client)
    /\ ~(ServerOpen(proxy) /\ Readable(net.backend))

\* C15: a turn of the loop that finds the session inactive, nothing to read and
\* the client buffer empty leaves the loop, and a session that has left the loop
\* closes the client connection as its next step.
C15_InactiveSessionLeaves ==
    /\ [][(IdleTick /\ Process) => pc' = "done"]_vars
    /\ [][pc = "done" => (pc' = "closed" /\ proxy'.client.closed)]_vars

\* a session was closed for inactivity alone: the client has not shut down, no
\* exception was raised and the response is not complete
C15_Witness ==
    /\ pc = "closed"
    /\ proxy.client.closed
    /\ idle
    /\ fault = ""
    /\ ~net.client.eof
    /\ proxy.client.buffer = <<>>
    /\ proxy.response.state # COMPLETE

\* a turn of the loop dialled a backend and the connection failed
DialFailed == Process /\ Len(log'.dials) > Len(log.dials) /\ ~net.up

\* C16: when the connection to the backend fails, the 502 packet is all that
\* was ever queued for the client, no request was queued for or sent to a
\* backend, and the session has left the loop.
C16_ConnectFailureGives502 ==
    [][DialFailed
       => /\ log'.cqueued = BAD_GATEWAY_RESPONSE_PKT
          /\ log'.forwards = <<>>
          /\ log'.piped = <<>>
          /\ net'.backend.got = <<>>
          /\ pc' = "done"]_vars

\* C17: a request that names a configured user and gives an empty password,
\* that user's stored password being empty, is authenticated as that user and
\* is not answered with the 401 packet.
C17_EmptyPasswordAccepted ==
    (CredentialsMatch(proxy.request) /\ SubmittedPassword(proxy.request) = <<>>)
    => /\ proxy.username = SubmittedUser(proxy.request)
       /\ ~StartsWith(log.cqueued, PROXY_AUTHENTICATION_REQUIRED_RESPONSE_PKT)

\* C18: in a session a backend is dialled once at most and a request is built
\* and queued for a backend once at most, whatever the order in which client
\* bytes, backend bytes and the backend's end of stream come.
C18_OneDialOneRequest ==
    Len(log.dials) <= 1 /\ Len(log.forwards) <= 1

-----------------------------------------------------------------------------
(* The listener and its sessions (src/gns3_proxy.py 903-991): TCP.run      *)
(* accepts, HTTP.handle starts a Proxy thread per connection.  Here proxy  *)
(* is the list of the threads started, cfg the configuration they were all *)
(* handed, net the listening socket and pc the place of TCP.run.           *)

MaxSessions == 2

\* what main() read, with a deny rule for bob
ServerConfig == Config(<<>>, <<DenyRule(<<"bob">>, <<>>, <<>>, <<>>, <<>>)>>, <<>>, <<"labA">>)

\* the connections a client may open: what it sends, what the backend would
\* answer, whether the backend is up
Connection(client, answer, up) == [client |-> client, answer |-> answer, up |-> up]
Connections ==
    {Connection(Get(AliceCredential), VersionResponse, TRUE),
     Connection(Get(AliceCredential), VersionResponse, FALSE),
     Connection(Get(AliceCredential), NodesResponse, TRUE),
     Connection(Get(Basic("YWxpY2U6Ym9ndXM=")), VersionResponse, TRUE),
     Connection(Get(Basic("Ym9iOnB3Mg==")), VersionResponse, TRUE),
     Connection(Get(Basic("YWxpY2U=")), VersionResponse, TRUE)}

\* 979-991: Proxy(client, ...) of an accepted connection whose request has
\* arrived; the thread is at the head of the loop of _process
Thread(c) ==
    [proxy |-> Proxy,
     net |-> [client |-> [Peer(<<>>) EXCEPT !.arrived = c.client, !.sends = 1],
              backend |-> Peer(<<>>), up |-> c.up, shorts |-> 0, answer |-> c.answer],
     log |-> [dials |-> <<>>, forwards |-> <<>>, piped |-> <<>>, sread |-> <<>>,
              cqueued |-> <<>>],
     idle |-> FALSE, pc |-> "loop", fault |-> ""]

\* 978-991: handle() makes a Proxy of its own for the connection and starts it
handle(threads, c) == Append(threads, Thread(c))

\* run, were the fields of a session kept on an object all threads share
run_on_shared_object(threads, i, self) == [j \in 1..Len(threads) |-> self]

\* 903-919: run() works on the fields of its own Proxy object
run(threads, i, self) == [threads EXCEPT ![i] = self]

InitServer ==
    /\ cfg = ServerConfig
    /\ proxy = <<>>
    /\ net = [listening |-> TRUE]
    /\ pc = "accept"
    /\ idle = FALSE
    /\ log = <<>>
    /\ fault = ""
    /\ input = <<>> /\ cp = <<>> /\ hp = <<>> /\ hp2 = <<>> /\ feed = <<>>

\* 944-947: accept() returns a connection and handle() is called
Accept ==
    /\ pc = "accept"
    /\ Len(proxy) < MaxSessions
    /\ \E c \in Connections : proxy' = handle(proxy, c)
    /\ UNCHANGED <<input, cp, hp, hp2, feed, fault, cfg, net, pc, idle, log>>

\* 948-952: accept() raises; the listening socket is closed
ListenerFails ==
    /\ pc = "accept"
    /\ pc' = "stopped"
    /\ net' = [net EXCEPT !.listening = FALSE]
    /\ UNCHANGED <<input, cp, hp, hp2, feed, fault, cfg, proxy, idle, log>>

\* thread i after a turn of its loop that ended as w
ThreadTurned(i, w, f, t) ==
    /\ w.env
    /\ f = 0 \/ w.flushed
    /\ t = 0 \/ w.topped
    /\ proxy' = run(proxy, i, [proxy |-> w.proxy, net |-> w.net, log |-> w.log,
                               idle |-> w.idle, pc |-> PcAfter(w), fault |-> w.exc])

\* 880-894 in thread i
SessionTurn ==
    /\ \E i \in 1..Len(proxy) :
        /\ proxy[i].pc = "loop"
        /\ \E fc \in WriteChoices(proxy[i].proxy.client.buffer),
              fs \in (IF ServerOpen(proxy[i].proxy) /\ proxy[i].proxy.server.buffer # <<>>
                      THEN {0, 1} ELSE {-1}),
              f \in (IF proxy[i].net.client.arrived # <<>> /\ ~ServerOpen(proxy[i].proxy)
                     THEN {0, 1} ELSE {0}) :
               ThreadTurned(i, _process(World(proxy[i].proxy, proxy[i].net, proxy[i].log,
                                              proxy[i].idle), fc, fs, f, 0), f, 0)
    /\ UNCHANGED <<input, cp, hp, hp2, feed, fault, cfg, net, pc, idle, log>>

\* the backend of thread i sends its answer
SessionBackendSends ==
    /\ \E i \in 1..Len(proxy) :
        /\ proxy[i].pc = "loop"
        /\ ServerOpen(proxy[i].proxy)
        /\ proxy[i].net.backend.tosend # <<>>
        /\ proxy' = run(proxy, i, [proxy[i] EXCEPT !.net.backend.arrived = @ \o proxy[i].net.backend.tosend,
                                                   !.net.backend.tosend = <<>>,
                                                   !.net.backend.sends = @ + 1])
    /\ UNCHANGED <<input, cp, hp, hp2, feed, fault, cfg, net, pc, idle, log>>

\* 911-914 in thread i
SessionFinally ==
    /\ \E i \in 1..Len(proxy) :
        /\ proxy[i].pc = "done"
        /\ proxy' = run(proxy, i, [proxy[i] EXCEPT !.proxy.client.closed = TRUE, !.pc = "closed"])
    /\ UNCHANGED <<input, cp, hp, hp2, feed, fault, cfg, net, pc, idle, log>>

NextServer ==
    \/ Accept
    \/ ListenerFails
    \/ SessionTurn
    \/ SessionBackendSends
    \/ SessionFinally

SpecServer == InitServer /\ [][NextServer]_vars

\* a thread has left its loop on an error: an exception reached run(), or the
\* 401 or the 502 packet was queued
EndedInError(self) ==
    /\ self.pc \in {"done", "closed"}
    /\ \/ self.fault # ""
       \/ StartsWith(self.log.cqueued, PROXY_AUTHENTICATION_REQUIRED_RESPONSE_PKT)
       \/ StartsWith(self.log.cqueued, BAD_GATEWAY_RESPONSE_PKT)

\* C19: the step in which a session ends on an error, and the step that closes
\* it, change that session only: every other thread, the list of threads, the
\* listening socket, the place of the listener and the configuration are as
\* they were, so the listener accepts as before.
C19_ErrorEndsOneSession ==
    [][\A i \in 1..Len(proxy) :
          (Len(proxy') = Len(proxy) /\ proxy'[i] # proxy[i] /\ EndedInError(proxy'[i]))
          => /\ \A j \in 1..Len(proxy) : j # i => proxy'[j] = proxy[j]
             /\ pc' = pc
             /\ net' = net
             /\ cfg' = cfg]_vars

\* of two sessions one ended on an uncaught exception and was closed, the
\* other relayed the whole response to its client, and the listener is still
\* accepting
C19_Witness ==
    /\ Len(proxy) = 2
    /\ \E i, j \in 1..2 :
        /\ proxy[i].pc = "closed"
        /\ proxy[i].fault = "IndexError"
        /\ proxy[j].pc = "closed"
        /\ proxy[j].fault = ""
        /\ proxy[j].net.client.got = VersionResponse
    /\ pc = "accept"
    /\ net.listening

\* the bytes of the request the parser has been fed so far
FedSoFar == Take(RequestBytes(input), Len(RequestBytes(input)) - Len(feed))
\* the blank line that ends the headers is among them
HeadersFed == Find(FedSoFar, CRLF \o CRLF) # -1

\* C20: after every parse call the request parser is complete exactly when the
\* headers have ended and either the request has a Content-Length header and
\* that many body bytes were fed (none for Content-Length: 0) or it has no
\* Content-Length header and so no body.
C20_CompleteIffMessageEnded ==
    (hp.state = COMPLETE) <=>
        /\ HeadersFed
        /\ \/ input.cl = -1
           \/ Len(BodyIn(FedSoFar)) >= input.cl

-----------------------------------------------------------------------------
(* Claims about one session, continued                                     *)

\* what the backend was sent after the first request built for it, and the
\* request those bytes begin with
SentLater ==
    IF log.forwards = <<>> THEN <<>> ELSE Drop(net.backend.got, Len(log.forwards[1]))
LaterRequest == parse(HttpParser(REQUEST_PARSER), SentLater).self

\* C21 as stated: a request to which a deny rule applies for the authenticated
\* user does not reach the backend, be it the first of the session or one sent
\* later on the connection.
C21_DeniedNeverDelivered ==
    /\ (CredentialsMatch(proxy.request) /\ Denied(proxy.request))
       => (log.dials = <<>> /\ log.forwards = <<>> /\ net.backend.got = <<>>)
    /\ ~(CredentialsMatch(LaterRequest) /\ Denied(LaterRequest))

\* C21 amended: the first request of a session, when a deny rule applies to it
\* for the authenticated user, opens no backend connection and no byte of it
\* is queued for or sent to a backend.
C21_FirstDeniedNeverDelivered ==
    (CredentialsMatch(proxy.request) /\ Denied(proxy.request))
    => (log.dials = <<>> /\ log.forwards = <<>> /\ log.piped = <<>> /\ net.backend.got = <<>>)

\* a denied POST was refused with the 401 and the session closed
C21_Witness ==
    /\ pc = "closed"
    /\ proxy.request.method = <<"POST">>
    /\ CredentialsMatch(proxy.request)
    /\ Denied(proxy.request)
    /\ net.client.got = PROXY_AUTHENTICATION_REQUIRED_RESPONSE_PKT
    /\ log.dials = <<>>

\* the request has an Authorization header of the Basic scheme
IsBasic(request) ==
    /\ HasHeader(request.headers, <<"authorization">>)
    /\ StartsWith(Header(request.headers, <<"authorization">>).value,
                  <<"B", "a", "s", "i", "c", SP>>)

\* C22: a complete request without Authorization header, or with one of another
\* scheme than Basic, opens no backend connection, and the session ends with
\* the 401 packet queued for the client.
C22_OnlyBasicAccepted ==
    (proxy.request.state = COMPLETE /\ ~IsBasic(proxy.request))
    => /\ log.dials = <<>>
       /\ pc = "closed" => log.cqueued = PROXY_AUTHENTICATION_REQUIRED_RESPONSE_PKT

\* C23: when the password submitted, all that follows the first colon of the
\* decoded credential, itself holds a colon, the request is authenticated as
\* the user exactly when that whole text is the user's stored password.
C23_SplitAtFirstColon ==
    (HasCredentials(proxy.request) /\ Find(SubmittedPassword(proxy.request), <<COLON>>) # -1)
    => ((proxy.username = SubmittedUser(proxy.request)) <=> CredentialsMatch(proxy.request))

\* C24: a complete request whose Authorization value is no base64 text, or
\* decodes to a text without colon, opens no backend connection, and the
\* session ends with the 401 packet queued for the client.
C24_InvalidCredentialGets401 ==
    (/\ proxy.request.state = COMPLETE
     /\ HasHeader(proxy.request.headers, <<"authorization">>)
     /\ ~HasCredentials(proxy.request))
    => /\ log.dials = <<>>
       /\ pc = "closed" => log.cqueued = PROXY_AUTHENTICATION_REQUIRED_RESPONSE_PKT

\* a deny rule with a header or a body pattern whose user, method and url
\* fields match the request of the user
PatternRule(item, request, username) ==
    /\ fullmatch(item.user, username)
    /\ FieldMatches(item.method, request.method)
    /\ FieldMatches(item.url, request.url.path)
    /\ (item.header # <<>> \/ item.body # <<>>)

\* C25: when such a rule is among the deny rules, the session of an
\* authenticated user ends in one of two ways: with the 401 packet queued and
\* no backend dialled if a rule applies to the request, its patterns matched
\* against headers and body (a missing body being the empty text), and with
\* the request built for the backend if none applies.
C25_PatternRuleDeniesOrForwards ==
    (/\ pc = "closed"
     /\ CredentialsMatch(proxy.request)
     /\ \E i \in 1..Len(cfg.deny) :
            PatternRule(cfg.deny[i], proxy.request, SubmittedUser(proxy.request)))
    => IF Denied(proxy.request)
       THEN log.cqueued = PROXY_AUTHENTICATION_REQUIRED_RESPONSE_PKT /\ log.dials = <<>>
       ELSE Len(log.forwards) >= 1


\* the address the default server stands for: that of the server of this name,
\* or else the name read as an IPv4 or IPv6 address
DefaultAddress ==
    IF cfg.default_server = None THEN None
    ELSE IF HasServerName(cfg.default_server) THEN AddressOf(cfg.default_server)
    ELSE ip_address(cfg.default_server)

\* C26: a session whose user no mapping matches dials the default server, at
\* the address of the server of that name or else at the default read as an IP
\* address, and a session whose user a mapping matches dials the server of a
\* matching mapping.
C26_DefaultIffNoMappingMatched ==
    \A k \in 1..Len(log.dials) :
        IF MatchingMappings(proxy.username) = {}
        THEN DefaultAddress # None /\ log.dials[k] = DefaultAddress
        ELSE \E i \in MatchingMappings(proxy.username) :
                 /\ HasServerName(cfg.mapping[i].server)
                 /\ log.dials[k] = AddressOf(cfg.mapping[i].server)

\* no mapping for the user, a default that is an IPv6 address and no server's
\* name, and the backend dialled
C26_Witness ==
    /\ log.dials = <<(<<"::1">>)>>
    /\ cfg.default_server = <<"0::1">>
    /\ cfg.mapping # <<>>
    /\ MatchingMappings(proxy.username) = {}

\* an authenticated user whose request no deny rule refuses and whom no mapping
\* matches
Unmapped ==
    /\ proxy.username # None
    /\ ~Denied(proxy.request)
    /\ MatchingMappings(proxy.username) = {}

C28_UnknownServerFails ==
    (/\ proxy.username # None
     /\ ~Denied(proxy.request)
     /\ \E i \in MatchingMappings(proxy.username) : ~HasServerName(cfg.mapping[i].server))
    => /\ log.dials = <<>>
       /\ log.forwards = <<>>
       /\ fault = "ProxyError"
       /\ pc # "loop"

\* the unknown server behind a mapping that matches too and has a server, with
\* a default server set, and the session over
C28_Witness ==
    /\ proxy.username = <<"alice">>
    /\ cfg.mapping = <<Mapping(<<ANY>>, <<"labA">>), Mapping(<<"alice">>, <<"labX">>)>>
    /\ cfg.default_server = <<"labA">>
    /\ fault = "ProxyError"
    /\ pc = "closed"

\* a project filter is set for the user
UserFiltered ==
    \E k \in 1..Len(cfg.project_filter) :
        fullmatch(cfg.project_filter[k].match, proxy.username)

\* C29: a session that fills up the body of a /v2/projects response for a user
\* with a project filter is never held in a read that does not return: a
\* backend that stays silent, or closes, before the body is complete leaves the
\* session able to end on its deadline.
C29_TopUpHonoursDeadline ==
    (UserFiltered /\ RouteOf(input.backend) = <<"/v2/projects">>) => pc # "hung"

\* C30: however the reads cut a /v2/projects response for a user with a project
\* filter, once all of it has been read what is queued for the client is one
\* response whose body is the whole list of the user's projects, each once, and
\* whose Content-Length is the length of that body.
C30_FilteredForEverySplit ==
    (UserFiltered /\ input.backend = ProjectsResponse /\ log.sread = ProjectsResponse)
    => /\ fault = ""
       /\ Find(log.cqueued, CRLF \o CRLF) # -1
       /\ ContentLength(HeaderLinesIn(log.cqueued), -2) = Len(BodyIn(log.cqueued))
       /\ json_loads(BodyIn(log.cqueued)).exc = ""
       /\ {json_loads(BodyIn(log.cqueued)).list[i] :
               i \in 1..Len(json_loads(BodyIn(log.cqueued)).list)} = Allowed(proxy.username)
       /\ Len(json_loads(BodyIn(log.cqueued)).list) = Cardinality(Allowed(proxy.username))

\* the user's filters, by their place in the configuration, that let a project
\* through
FiltersFor(obj) ==
    {k \in 1..Len(cfg.project_filter) :
        /\ fullmatch(cfg.project_filter[k].match, proxy.username)
        /\ fullmatch(cfg.project_filter[k].filter, ProjectName(obj))}

\* the first of them, and the first place of the project in the backend's list
FirstFilter(obj) == CHOOSE k \in FiltersFor(obj) : \A n \in FiltersFor(obj) : k <= n
BackendPlace(obj) ==
    CHOOSE i \in 1..Len(json_loads(ProjectsBody).list) :
        /\ json_loads(ProjectsBody).list[i] = obj
        /\ \A n \in 1..(i - 1) : json_loads(ProjectsBody).list[n] # obj

\* C31: the list the client is queued for the backend's project list holds the
\* projects by the first of the user's filters that lets them through, and those
\* of one filter in the order of the backend's list.
C31_OrderedByFirstFilter ==
    (/\ UserFiltered
     /\ input.backend = ProjectsResponse
     /\ Find(log.cqueued, CRLF \o CRLF) # -1
     /\ json_loads(BodyIn(log.cqueued)).exc = "")
    => \A i, j \in 1..Len(json_loads(BodyIn(log.cqueued)).list) :
           i < j =>
               /\ FiltersFor(json_loads(BodyIn(log.cqueued)).list[i]) # {}
               /\ FiltersFor(json_loads(BodyIn(log.cqueued)).list[j]) # {}
               /\ \/ FirstFilter(json_loads(BodyIn(log.cqueued)).list[i])
                        < FirstFilter(json_loads(BodyIn(log.cqueued)).list[j])
                  \/ /\ FirstFilter(json_loads(BodyIn(log.cqueued)).list[i])
                            = FirstFilter(json_loads(BodyIn(log.cqueued)).list[j])
                     /\ BackendPlace(json_loads(BodyIn(log.cqueued)).list[i])
                            < BackendPlace(json_loads(BodyIn(log.cqueued)).list[j])

\* two filters for the user, and a list queued in another order than the
\* backend's: the project of the first filter, then those of the second
C31_Witness ==
    /\ Len(cfg.project_filter) = 2
    /\ input.backend = ProjectsResponse
    /\ Find(log.cqueued, CRLF \o CRLF) # -1
    /\ json_loads(BodyIn(log.cqueued)).list = <<"{name: Other}", "{name: LabA}", "{name: LabB}">>

\* a response with the body its Content-Length announces, which is no list of
\* projects
Undecodable(bytes) ==
    /\ Find(bytes, CRLF \o CRLF) # -1
    /\ ContentLength(HeaderLinesIn(bytes), -2) = Len(BodyIn(bytes))
    /\ \/ json_loads(BodyIn(bytes)).exc # ""
       \/ json_loads(BodyIn(bytes)).dict

\* C32: a /v2/projects response for a user with a project filter whose body is
\* no JSON list of projects, read in one piece, is queued for the client as it
\* came, and the session goes on without an error.
C32_UndecodablePassedThrough ==
    (/\ UserFiltered
     /\ RouteOf(input.backend) = <<"/v2/projects">>
     /\ Undecodable(input.backend)
     /\ log.sread = input.backend
     /\ net.backend.sends = 1)
    => /\ fault = ""
       /\ log.cqueued = input.backend

\* a turn of the loop of a session that is inactive and has nothing to read
InactiveTurn ==
    /\ pc = "loop"
    /\ idle
    /\ ~Readable(net.client)
    /\ ~(ServerOpen(proxy) /\ Readable(net.backend))
    /\ Process

\* C33: a turn of the loop that finds the session inactive leaves the loop,
\* whatever the client buffer holds.
C33_InactiveLeavesWhateverBuffer ==
    [][InactiveTurn => pc' = "done"]_vars

\* C33, amended: a turn of the loop that finds the session inactive leaves the
\* loop when the client buffer is empty after its flush, and stays in the loop
\* when bytes for the client are still pending.
C33_InactiveLeavesOnEmptyBuffer ==
    [][InactiveTurn => (pc' = "done" <=> proxy'.client.buffer = <<>>)]_vars

\* an inactive session still in the loop: part of the response went out in
\* short sends and the rest is pending
C33_Witness ==
    /\ pc = "loop"
    /\ idle
    /\ proxy.client.buffer # <<>>
    /\ net.client.got # <<>>
    /\ net.client.got \o proxy.client.buffer = log.cqueued

\* C34: once an authenticated user's CONNECT request is complete, the client
\* has been queued the tunnel-established packet and nothing else, no request
\* was forwarded, and no byte goes to the backend or comes from it: nothing is
\* piped or sent to it, and nothing is read from it.
C34_ConnectExchangesNothing ==
    (/\ proxy.request.state = COMPLETE
     /\ proxy.request.method = <<"CONNECT">>
     /\ proxy.username # None)
    => /\ log.cqueued = PROXY_TUNNEL_ESTABLISHED_RESPONSE_PKT
       /\ log.forwards = <<>>
       /\ log.piped = <<>>
       /\ net.backend.got = <<>>
       /\ log.sread = <<>>

\* what a turn of the loop queued for the backend endpoint: for a new endpoint
\* the requests forwarded in this turn, for the one at hand the bytes piped
QueuedForServer ==
    IF Len(log'.dials) > Len(log.dials)
    THEN Concat(SubSeq(log'.forwards, Len(log.forwards) + 1, Len(log'.forwards)))
    ELSE net.backend.got \o proxy.server.buffer \o Drop(log'.piped, Len(log.piped))

\* C35: at all times what the client was sent, followed by what its buffer
\* holds, is what was queued for it, in that order; and after every turn of the
\* loop what the backend endpoint was sent, followed by what its buffer holds,
\* is what it was before followed by what the turn queued for it (a dial that
\* fails leaves no endpoint to send to).
C35_SentIsPrefixOfQueued ==
    /\ [](pc # "none" => net.client.got \o proxy.client.buffer = log.cqueued)
    /\ [][(Process /\ proxy'.server # NoServer /\ ~DialFailed)
           => net'.backend.got \o proxy'.server.buffer = QueuedForServer]_vars

\* a short send to the backend: the first byte of the forwarded request is out,
\* the rest in the buffer
C35_Witness ==
    /\ proxy.server # NoServer
    /\ Len(net.backend.got) = 1
    /\ proxy.server.buffer # <<>>
    /\ net.backend.got \o proxy.server.buffer = log.forwards[1]

\* C36: the user of a session is set only to the user of the credential the
\* request carries, and only when that user is configured with the password
\* submitted; once set it stays as it is in every later step, the redial after
\* the backend has closed included.
C36_UserSetOnceOnSuccess ==
    /\ [](proxy.username # None
            => /\ proxy.username = SubmittedUser(proxy.request)
               /\ CredentialsMatch(proxy.request))
    /\ [][proxy.username # None => proxy'.username = proxy.username]_vars

\* C37: every ChunkParser.parse call returns, whatever the bytes it is given and
\* the state it finds, also when bytes follow the zero-size chunk and when the
\* parser is COMPLETE already.
C37_ChunkParseReturns == fault # "LOOP"

\* what a request parser shows of the request it was fed
Shown(self) ==
    <<self.state, self.method, self.url, self.headers, self.body>>

\* C38: once all bytes of a request were fed, however they were split over the
\* parse calls, the parser shows the state, method, URL, headers and body it
\* shows after one parse call on all of them.
C38_SameForEverySplit ==
    (feed = <<>> /\ fault = "")
    => Shown(hp) = Shown(parse(HttpParser(REQUEST_PARSER), RequestBytes(input)).self)

\* C39: once the whole /v2/projects response for a user with a project filter
\* has been read, the filter's own reads included, and all that was queued for
\* the client has been sent, the session has left its loop.
C39_EndsOnceFilteredResponseSent ==
    (/\ UserFiltered
     /\ input.backend = ProjectsResponse
     /\ log.sread = ProjectsResponse
     /\ fault = ""
     /\ log.cqueued # <<>>
     /\ net.client.got = log.cqueued)
    => pc # "loop"

\* C40: once the parser has reached COMPLETE, after every later parse call that
\* returns its state is COMPLETE again, whatever bytes were fed, and its method,
\* url, version and headers are what they were.
C40_CompleteIsFinal ==
    [][(hp.state = COMPLETE /\ fault' = "")
        => (/\ hp'.state = COMPLETE
            /\ hp'.method = hp.method
            /\ hp'.url = hp.url
            /\ hp'.version = hp.version
            /\ hp'.headers = hp.headers)]_vars

=============================================================================
